---- MODULE Spec2Model ----
(***************************************************************************)
(* Agent runtime of m4d-coso: the in-memory and persistent event bus, the  *)
(* agent loop (platform updates and bus events), the throttle counter, the *)
(* onboarding and authorization gates and the tool-use turn cycle.         *)
(***************************************************************************)
EXTENDS Integers, Sequences, FiniteSets, TLC

VARIABLES
    opts,       \* agent.Options: [bus, handleStart, authorize]
    store,      \* table agent_events: sequence of rows in insertion order
    ch,         \* InMemoryBus.ch: the buffered channel of AgentEvents
    now,        \* the database clock NOW()
    contexts,   \* Agent.contexts: user -> sequence of messages (<<>> when absent)
    cnt,        \* Agent.consecutiveEventCount: user -> int
    pc,         \* position of the dispatcher
    cur,        \* the update or event being handled
    turn,       \* runLLMTurn locals: pending tool calls and collected results
    offset,     \* the poll offset (runTelegramOnly's, or the poller goroutine's)
    batch,      \* updates returned by the last Poll and not yet iterated over
    updCh,      \* telegramUpdateCh of runUnified
    cancelled,  \* ctx.Done() is closed
    tr,         \* history: what the handling of the current item has done so far
    hist,       \* history: per event id, what has happened to it
    routed,     \* history: bus events routed to a user since their last update
    last,       \* history: the bus operation of the last step and its outcome
    npub,       \* history: the number of events the numbering producer published
    typing,     \* the typingLoop goroutine of the turn, when the Messenger is a
                \* TypingNotifier
    rem,        \* the reminder producer: its position, the rows it selected, and
                \* the reminders table
    hb,         \* the heartbeat producer: the environment it read and the
                \* goroutines it started
    reg,        \* the user registry: roles, tables users and user_credentials,
                \* the cached pools, and the last call with its result
    sess,       \* session recording: the JSONL file and the Recorder of each user
    rt,         \* doWithRetry: its position, attempt and the outcomes of its requests
    runRet,     \* what Run returned: "" while it runs, "nil", or the error
    sp,         \* a call of splitAtNewlines: [pc, text, max, runes, start, chunks]
    ord,        \* the consumer's view of one run: [base, recv]
    pl,         \* concurrent UserRegistry.Pool calls: [calls, cache, opened, got]
    bc          \* the bus under Close: closed, and each producer's call of Publish

vars == <<opts, store, ch, now, contexts, cnt, pc, cur, turn, offset, batch,
          updCh, cancelled, tr, hist, routed, last, npub, typing, rem,
          hb, reg, sess, rt, runRet, sp, ord, pl, bc>>

\* what the actions of the agent and the bus leave alone
sideVars == <<rem, hb, reg, sess, rt, runRet, sp, ord, pl, bc>>

\* what the actions of one producer or service leave alone
notRem == <<npub, typing, hb, reg, sess, rt, runRet, sp, ord, pl, bc>>
notHb == <<npub, typing, rem, reg, sess, rt, runRet, sp, ord, pl, bc>>
notReg == <<npub, typing, rem, hb, sess, rt, runRet, sp, ord, pl, bc>>
notSess == <<npub, typing, rem, hb, reg, rt, runRet, sp, ord, pl, bc>>
notRt == <<npub, typing, rem, hb, reg, sess, runRet, sp, ord, pl, bc>>
notRet == <<npub, typing, rem, hb, reg, sess, rt, sp, ord, pl, bc>>
notSp == <<npub, typing, rem, hb, reg, sess, rt, runRet, ord, pl, bc>>
notOrd == <<npub, typing, rem, hb, reg, sess, rt, runRet, sp, pl, bc>>
notPl == <<npub, typing, rem, hb, reg, sess, rt, runRet, sp, ord, bc>>
notBc == <<npub, typing, rem, hb, reg, sess, rt, runRet, sp, ord, pl>>
auxVars == <<npub, typing, sideVars>>

----------------------------------------------------------------------------
(* Program constants *)

BusCap == 256
UpdChCap == 64
ThrottleLimit == 10
ThrottleSleepSec == 30

(* Bounds of the model *)

MaxNow == 2
MaxQueue == 2
MaxSeq == 2
MaxBatch == 2
MaxLLMCalls == 2
MaxCtxLen == 2

Users == {1, 2}
EventIds == {"e1", "e2"}

----------------------------------------------------------------------------
(* Strings are sequences of characters, so that prefix tests, trimming and *)
(* formatting are computed.                                                *)

StartCmd == <<"/", "s", "t", "a", "r", "t">>
TextHello == <<"h", "i">>
TextStartToken == StartCmd \o <<" ", "T">>
TextStartGlued == StartCmd \o <<"x">>
SorryText == <<"S", "o", "r", "r", "y", ",", " ", "s", "o", "m", "e", "t", "h",
               "i", "n", "g", " ", "w", "e", "n", "t", " ", "w", "r", "o", "n",
               "g", ".">>
EmptyStr == <<>>

\* strings.HasPrefix
HasPrefix(s, p) == Len(s) >= Len(p) /\ SubSeq(s, 1, Len(p)) = p

\* strings.TrimPrefix
TrimPrefix(s, p) == IF HasPrefix(s, p) THEN SubSeq(s, Len(p) + 1, Len(s)) ELSE s

IsSpace(c) == c \in {" ", "\t", "\n", "\r"}

RECURSIVE TrimLeft(_)
TrimLeft(s) == IF s # <<>> /\ IsSpace(Head(s)) THEN TrimLeft(Tail(s)) ELSE s

RECURSIVE TrimRight(_)
TrimRight(s) ==
    IF s # <<>> /\ IsSpace(s[Len(s)]) THEN TrimRight(SubSeq(s, 1, Len(s) - 1)) ELSE s

\* strings.TrimSpace
TrimSpace(s) == TrimRight(TrimLeft(s))

\* fmt.Sprintf("[%s]: %s", source, content)
RelayText(source, content) == <<"[">> \o source \o <<"]", ":", " ">> \o content

----------------------------------------------------------------------------
(* Message IR *)

NoUsage == <<>>
Usage(i, o) == <<i, o>>

TextBlock(t) == [type |-> "text", text |-> t, id |-> "", name |-> "", is_error |-> FALSE]
ToolUseBlock(c) == [type |-> "tool_use", text |-> EmptyStr, id |-> c.id, name |-> c.name,
                    is_error |-> FALSE]

\* toolResultBlock
toolResultBlock(r) == [type |-> "tool_result", text |-> r.content, id |-> r.tool_call_id,
                       name |-> "", is_error |-> r.is_error]

\* userMessage
userMessage(update) == [role |-> "user", content |-> <<TextBlock(update.text)>>,
                        usage |-> NoUsage]

\* assistantMessage
assistantMessage(text) == [role |-> "assistant", content |-> <<TextBlock(text)>>,
                           usage |-> NoUsage]

\* assistantToolUseMessage
assistantToolUseMessage(calls) ==
    [role |-> "assistant",
     content |-> [i \in 1..Len(calls) |-> ToolUseBlock(calls[i])],
     usage |-> NoUsage]

\* toolResultMessage
toolResultMessage(results) == [role |-> "user", content |-> results, usage |-> NoUsage]

WithUsage(m, u) == [m EXCEPT !.usage = u]

----------------------------------------------------------------------------
(* Updates, events, rows *)

ChatOf(u) == u + 100

NoUpdate == [id |-> 0, chat |-> 0, user |-> 0, text |-> EmptyStr]
NoEvent == [kind |-> "", target |-> 0, chat |-> 0, content |-> EmptyStr,
            source |-> EmptyStr, event_id |-> ""]

Row(ev, t) == [event_id |-> ev.event_id, target |-> ev.target, chat |-> ev.chat,
               kind |-> ev.kind, content |-> ev.content, source |-> ev.source,
               created_at |-> t, processed_at |-> 0]

RowEvent(r) == [kind |-> r.kind, target |-> r.target, chat |-> r.chat,
                content |-> r.content, source |-> r.source, event_id |-> r.event_id]

HasRow(st, eid) == \E i \in DOMAIN st : st[i].event_id = eid

----------------------------------------------------------------------------
(* InMemoryBus and PersistentBus *)

\* a publish that makes room by discarding the oldest queued event
MemPublishDropOldest(q, ev) ==
    IF Len(q) < BusCap THEN Append(q, ev) ELSE Append(Tail(q), ev)

\* InMemoryBus.Publish: select { case b.ch <- event: default: drop }
MemPublish(q, ev) == IF Len(q) < BusCap THEN Append(q, ev) ELSE q

\* the insert without its ON CONFLICT clause on a table without the constraint
InsertEventAlways(st, ev, t) == Append(st, Row(ev, t))

\* INSERT INTO agent_events ... ON CONFLICT (event_id) DO NOTHING
InsertEvent(st, ev, t) == IF HasRow(st, ev.event_id) THEN st ELSE Append(st, Row(ev, t))

\* The INSERT of PersistentBus.Publish fails when the database does, and when
\* the event id is no UUID (the column is UUID NOT NULL).
InsertFails(ev, dbOk) == ~dbOk \/ ev.event_id = ""

\* Publish returning at the insert error instead of logging it
PersistentPublishAbort(st, q, ev, t, dbOk) ==
    IF InsertFails(ev, dbOk)
    THEN [store |-> st, ch |-> q, err |-> TRUE]
    ELSE [store |-> InsertEvent(st, ev, t), ch |-> MemPublish(q, ev), err |-> FALSE]

\* PersistentBus.Publish: persist, log a failure, forward in memory
PersistentPublish(st, q, ev, t, dbOk) ==
    [store |-> IF InsertFails(ev, dbOk) THEN st ELSE InsertEvent(st, ev, t),
     ch |-> MemPublish(q, ev),
     err |-> InsertFails(ev, dbOk)]

\* EventBus.Publish of the configured bus
BusPublish(kind, st, q, ev, t, dbOk) ==
    IF kind = "persistent" THEN PersistentPublish(st, q, ev, t, dbOk)
    ELSE [store |-> st, ch |-> MemPublish(q, ev), err |-> FALSE]

\* the replay query without its WHERE clause
UnprocessedAny(st) == DOMAIN st

\* WHERE processed_at IS NULL
Unprocessed(st) == {i \in DOMAIN st : st[i].processed_at = 0}

\* (variant: the replay query has no ORDER BY, the rows come in any order)
ReplayOrdersUnsorted(st) ==
    LET U == Unprocessed(st)
        n == Cardinality(U)
    IN {p \in [1..n -> U] : \A a, b \in 1..n : a # b => p[a] # p[b]}

\* ORDER BY created_at: every order of the selected rows the database may
\* return (rows with equal created_at come in any order)
ReplayOrders(st) ==
    LET U == Unprocessed(st)
        n == Cardinality(U)
    IN {p \in [1..n -> U] :
           /\ \A a, b \in 1..n : a # b => p[a] # p[b]
           /\ \A a, b \in 1..n : a < b => st[p[a]].created_at <= st[p[b]].created_at}

RECURSIVE PublishAll(_, _)
PublishAll(q, evs) ==
    IF evs = <<>> THEN q ELSE PublishAll(MemPublish(q, Head(evs)), Tail(evs))

\* PersistentBus.ReplayUnprocessed, for one order of the rows
ReplayEvents(st, p) == [i \in DOMAIN p |-> RowEvent(st[p[i]])]

\* the update without its WHERE clause
MarkRowsAll(st, eid, t) == [i \in DOMAIN st |-> [st[i] EXCEPT !.processed_at = t]]

\* UPDATE agent_events SET processed_at = NOW() WHERE event_id = $1
MarkRows(st, eid, t) ==
    [i \in DOMAIN st |-> IF st[i].event_id = eid
                         THEN [st[i] EXCEPT !.processed_at = t] ELSE st[i]]

----------------------------------------------------------------------------
(* History *)

\* per event id: published on the persistent bus; a publish ended with its row
\* in the table; handed to the dispatcher; MarkProcessed returned without error
\* with its row in the table
NoHist == [published |-> FALSE, persisted |-> FALSE, delivered |-> FALSE,
           marked |-> FALSE]

NoLast == [op |-> "none", ev |-> NoEvent, err |-> FALSE, replayed |-> <<>>]

NoTrace == [src |-> "none", user |-> 0, chat |-> 0, payload |-> EmptyStr,
            startCalled |-> FALSE, startErr |-> FALSE, startReply |-> EmptyStr,
            authCalled |-> FALSE, authErr |-> FALSE, authReply |-> EmptyStr,
            sends |-> <<>>, llmCalls |-> 0, slept |-> 0,
            committed |-> FALSE, done |-> FALSE, len0 |-> 0, log |-> <<>>]

HistPublish(h, ev, res) ==
    IF ev.event_id \in DOMAIN h
    THEN [h EXCEPT ![ev.event_id] =
             [@ EXCEPT !.published = TRUE, !.persisted = @ \/ ~res.err]]
    ELSE h

HistDeliver(h, ev) ==
    IF ev.event_id \in DOMAIN h
    THEN [h EXCEPT ![ev.event_id] = [@ EXCEPT !.delivered = TRUE]]
    ELSE h

HistMark(h, eid, st, ok) ==
    IF ok /\ eid \in DOMAIN h /\ HasRow(st, eid)
    THEN [h EXCEPT ![eid] = [@ EXCEPT !.marked = TRUE]]
    ELSE h

----------------------------------------------------------------------------
(* Context manager and tool registry *)

\* ContextManager.Append on the context of contextFor(u); Agent.Inject
AppendToEvery(ctxs, u, m) == [v \in DOMAIN ctxs |-> Append(ctxs[v], m)]

AppendTo(ctxs, u, m) == [ctxs EXCEPT ![u] = Append(@, m)]

\* The registered tools and the way each handler ends
Registry == {"echo", "send_user_message"}
ToolNames == Registry \cup {"nope"}

UnknownToolText(name) == <<"unknown tool: ", name>>
HandlerErrText == <<"handler failed">>
HandlerOutText == <<"tool-result">>

\* (variant: the error of a handler is returned as a plain result)
ExecuteErrAsOutput(name, ok) ==
    IF name \notin Registry
    THEN [tool_call_id |-> "", content |-> UnknownToolText(name), is_error |-> TRUE]
    ELSE IF ~ok
    THEN [tool_call_id |-> "", content |-> HandlerErrText, is_error |-> FALSE]
    ELSE [tool_call_id |-> "", content |-> HandlerOutText, is_error |-> FALSE]

\* ToolRegistry.Execute: the result of one dispatch; ok is the handler's outcome
Execute(name, ok) ==
    IF name \notin Registry
    THEN [tool_call_id |-> "", content |-> UnknownToolText(name), is_error |-> TRUE]
    ELSE IF ~ok
    THEN [tool_call_id |-> "", content |-> HandlerErrText, is_error |-> TRUE]
    ELSE [tool_call_id |-> "", content |-> HandlerOutText, is_error |-> FALSE]

\* (variant: the id of the call is not copied into the result)
WithCallIdKept(r, call) == r

\* if result.ToolCallID == "" { result.ToolCallID = toolCall.ID }
WithCallId(r, call) == IF r.tool_call_id = "" THEN [r EXCEPT !.tool_call_id = call.id] ELSE r

NoTurn == [calls |-> <<>>, idx |-> 0, results |-> <<>>]
\* No keep-alive goroutine. pc is the position of the goroutine ("none",
\* "start" before its first SendTyping, "wait" in its select, "done" after its
\* return), stop tells whether the stop channel is closed, n counts the
\* SendTyping calls; sent and late are history: the final Send of the turn
\* has returned, and a SendTyping was issued after that.
\* the reminders table: two rows, for the chats of the two users, not fired
ReminderRows == {1, 2}

NoRem == [pc |-> "off", due |-> <<>>, err |-> "",
          rows |-> [r \in ReminderRows |->
                       [chat |-> r, fire_at |-> r, fired |-> FALSE, ids |-> <<>>]],
          delivered |-> {}]

NoHb == [pc |-> "off", time |-> <<>>, interval |-> <<>>, tasks |-> <<>>]

NoRegLast == [op |-> "none", user |-> 0, err |-> FALSE, pw |-> 0, exists |-> FALSE,
              before |-> [role |-> 0, users |-> FALSE, cred |-> 0, cached |-> 0,
                          grants |-> 0]]

NoReg == [roles |-> <<>>, users |-> <<>>, creds |-> <<>>,
          grants |-> [u \in Users |-> 0], pools |-> [u \in Users |-> 0],
          npw |-> 0, last |-> NoRegLast]

NoSess == [files |-> [u \in Users |-> <<>>],
           recorders |-> [u \in Users |-> [open |-> FALSE, lastID |-> 0]], nid |-> 0]

\* the outcome of one request: a response with a status, or an error with
\* its message (in words, lower case) and whether it is a net.Error timeout
HttpStatus(code) ==
    [status |-> code, msg |-> <<>>, netTimeout |-> FALSE, retryAfter |-> <<>>]
RequestError(msg, netTimeout) ==
    [status |-> 0, msg |-> msg, netTimeout |-> netTimeout, retryAfter |-> <<>>]

NoRetry == [pc |-> "idle", cfg |-> 0, max |-> 0, attempt |-> 0, outs |-> <<>>,
            result |-> HttpStatus(0), base |-> 0, maxDelay |-> 0, jitter |-> 0,
            delay |-> 0]

NoSplit == [pc |-> "off", text |-> <<>>, max |-> 0, runes |-> <<>>, start |-> 0,
            chunks |-> <<>>]

NoOrder == [base |-> 0, recv |-> <<>>]

NoPools == [calls |-> [c \in {1, 2} |-> [pc |-> "idle", user |-> 0, pool |-> 0, err |-> FALSE]],
            cache |-> [u \in {1, 2} |-> 0], opened |-> <<>>, got |-> [u \in {1, 2} |-> {}]]

NoClose ==
    [closed |-> FALSE,
     prod |-> [p \in {"reminder", "heartbeat", "tool"} |-> [pc |-> "idle", ev |-> NoEvent]]]

NoTyping == [pc |-> "none", chat |-> 0, stop |-> FALSE, n |-> 0, sent |-> FALSE,
             late |-> FALSE, open |-> FALSE, closes |-> 0]

NoCur == [src |-> "none", upd |-> NoUpdate, ev |-> NoEvent, ptr |-> FALSE]

\* The log of a handler: what it did, in the order of the code. op is "chat"
\* (a call of the model), "append" (to the context of the turn's user, id is
\* the role), "exec" (a tool dispatch, id is the call id, text holds the way
\* the handler ended), "inject" (into the
\* context of another user) or "send" (Messenger.Send to the turn's chat).
\* For "chat" id is the type of the response ("err" for a returned error).
Log(t, op, text, id) == [t EXCEPT !.log = Append(@, [op |-> op, text |-> text, id |-> id])]

Send(t, chat, text) ==
    Log([t EXCEPT !.sends = Append(@, [chat |-> chat, text |-> text])], "send", text, "")

----------------------------------------------------------------------------
(* State after construction: agent.New, an empty bus, an empty table *)

InitWith(o) ==
    /\ opts = o
    /\ store = <<>>
    /\ ch = <<>>
    /\ now = 1
    /\ contexts = [u \in Users |-> <<>>]
    /\ cnt = [u \in Users |-> 0]
    /\ pc = "boot"
    /\ cur = NoCur
    /\ turn = NoTurn
    /\ offset = 0
    /\ batch = <<>>
    /\ updCh = <<>>
    /\ cancelled = FALSE
    /\ tr = NoTrace
    /\ hist = [e \in EventIds |-> NoHist]
    /\ routed = [u \in Users |-> 0]
    /\ last = NoLast
    /\ npub = 0
    /\ typing = NoTyping
    /\ rem = NoRem
    /\ hb = NoHb
    /\ reg = NoReg
    /\ sess = NoSess
    /\ rt = NoRetry
    /\ runRet = ""
    /\ sp = NoSplit
    /\ ord = NoOrder
    /\ pl = NoPools
    /\ bc = NoClose

busVars == <<store, ch>>
loopVars == <<contexts, cnt, pc, cur, turn, tr, routed>>
pollVars == <<offset, batch, updCh>>

----------------------------------------------------------------------------
(* The database clock *)

Tick ==
    /\ now < MaxNow
    /\ now' = now + 1
    /\ last' = NoLast
    /\ UNCHANGED <<opts, busVars, loopVars, pollVars, cancelled, hist>>

----------------------------------------------------------------------------
(* Producers: a publish on the configured bus from outside the dispatcher  *)

Publish(ev, dbOk) ==
    /\ opts.bus # "none"
    /\ pc \notin {"boot", "stopped"}
    /\ LET res == BusPublish(opts.bus, store, ch, ev, now, dbOk)
       IN /\ store' = res.store
          /\ ch' = res.ch
          /\ hist' = IF opts.bus = "persistent" THEN HistPublish(hist, ev, res) ELSE hist
          /\ last' = [op |-> "publish", ev |-> ev, err |-> res.err, replayed |-> <<>>]
    /\ UNCHANGED <<opts, now, loopVars, pollVars, cancelled>>

----------------------------------------------------------------------------
(* Process start, crash and cancellation *)

\* Startup: ReplayUnprocessed (persistent bus only), then Run
Startup(dbOk) ==
    /\ pc = "boot"
    /\ pc' = "idle"
    /\ IF opts.bus = "persistent"
       THEN IF dbOk
            THEN \E p \in ReplayOrders(store) :
                    /\ ch' = PublishAll(ch, ReplayEvents(store, p))
                    /\ last' = [op |-> "replay", ev |-> NoEvent, err |-> FALSE,
                                replayed |-> ReplayEvents(store, p)]
            ELSE /\ ch' = ch
                 /\ last' = [op |-> "replay", ev |-> NoEvent, err |-> TRUE,
                             replayed |-> <<>>]
       ELSE /\ dbOk
            /\ ch' = ch
            /\ last' = NoLast
    /\ UNCHANGED <<opts, store, now, contexts, cnt, cur, turn, tr, routed, pollVars,
                   cancelled, hist>>

\* The process dies (crash, or exit after Run returned) and is started again:
\* everything in memory is lost, the table stays
Restart ==
    /\ pc # "boot"
    /\ ch' = <<>>
    /\ contexts' = [u \in Users |-> <<>>]
    /\ cnt' = [u \in Users |-> 0]
    /\ routed' = [u \in Users |-> 0]
    /\ pc' = "boot"
    /\ cur' = NoCur
    /\ turn' = NoTurn
    /\ tr' = NoTrace
    /\ offset' = 0
    /\ batch' = <<>>
    /\ updCh' = <<>>
    /\ cancelled' = FALSE
    /\ last' = NoLast
    /\ UNCHANGED <<opts, store, now, hist>>

\* The root context is cancelled
Cancel ==
    /\ pc \notin {"boot", "stopped"}
    /\ ~cancelled
    /\ cancelled' = TRUE
    /\ last' = NoLast
    /\ UNCHANGED <<opts, busVars, now, loopVars, pollVars, hist>>

----------------------------------------------------------------------------
(* Polling *)

Max(a, b) == IF a >= b THEN a ELSE b

\* Messenger.Poll(offset): updates with ascending ids, none below the offset
PollResults(off, texts) ==
    LET first == Max(off, 1)
        Upd(i, u, t) == [id |-> i, chat |-> ChatOf(u), user |-> u, text |-> t]
        Lens == {n \in 1..MaxBatch : first + n - 1 <= MaxSeq}
    IN UNION {{[i \in 1..n |-> Upd(first + i - 1, us[i], ts[i])] :
                  us \in [1..n -> Users], ts \in [1..n -> texts]} : n \in Lens}

\* runTelegramOnly: the loop head and Poll
TelegramOnlyPoll(b) ==
    /\ opts.bus = "none"
    /\ pc = "idle"
    /\ batch = <<>>
    /\ ~cancelled
    /\ batch' = b
    /\ last' = NoLast
    /\ UNCHANGED <<opts, busVars, now, loopVars, offset, updCh, cancelled, hist>>

\* runTelegramOnly: if ctx.Err() != nil { return nil }
TelegramOnlyReturn ==
    /\ opts.bus = "none"
    /\ pc = "idle"
    /\ batch = <<>>
    /\ cancelled
    /\ pc' = "stopped"
    /\ last' = NoLast
    /\ UNCHANGED <<opts, busVars, now, contexts, cnt, cur, turn, tr, routed, pollVars,
                   cancelled, hist>>

\* runUnified, poller goroutine: the loop head and Poll
PollerPoll(b) ==
    /\ opts.bus # "none"
    /\ pc \notin {"boot", "stopped"}
    /\ batch = <<>>
    /\ ~cancelled
    /\ batch' = b
    /\ last' = NoLast
    /\ UNCHANGED <<opts, busVars, now, loopVars, offset, updCh, cancelled, hist>>

\* (variant: the poller forwards the update and leaves its offset as it was)
PollerForwardKeepOffset ==
    /\ opts.bus # "none"
    /\ pc \notin {"boot", "stopped"}
    /\ batch # <<>>
    /\ Len(updCh) < UpdChCap
    /\ updCh' = Append(updCh, Head(batch))
    /\ batch' = Tail(batch)
    /\ last' = NoLast
    /\ UNCHANGED <<opts, busVars, now, loopVars, offset, cancelled, hist>>

\* (variant: the send has a default case, an update that finds the channel
\* full is discarded)
PollerForwardDropFull ==
    /\ opts.bus # "none"
    /\ pc \notin {"boot", "stopped"}
    /\ batch # <<>>
    /\ offset' = Head(batch).id + 1
    /\ updCh' = IF Len(updCh) < UpdChCap THEN Append(updCh, Head(batch)) ELSE updCh
    /\ batch' = Tail(batch)
    /\ last' = NoLast
    /\ UNCHANGED <<opts, busVars, now, loopVars, cancelled, hist>>

\* runUnified, poller goroutine: offset = u.UpdateID + 1; telegramUpdateCh <- u
PollerForward ==
    /\ opts.bus # "none"
    /\ pc \notin {"boot", "stopped"}
    /\ batch # <<>>
    /\ Len(updCh) < UpdChCap
    /\ offset' = Head(batch).id + 1
    /\ updCh' = Append(updCh, Head(batch))
    /\ batch' = Tail(batch)
    /\ last' = NoLast
    /\ UNCHANGED <<opts, busVars, now, loopVars, cancelled, hist>>

\* runUnified, poller goroutine: case <-ctx.Done(): return
PollerAbort ==
    /\ opts.bus # "none"
    /\ pc \notin {"boot", "stopped"}
    /\ batch # <<>>
    /\ cancelled
    /\ offset' = Head(batch).id + 1
    /\ batch' = <<>>
    /\ last' = NoLast
    /\ UNCHANGED <<opts, busVars, now, loopVars, updCh, cancelled, hist>>

----------------------------------------------------------------------------
(* handleTelegramUpdate *)

\* What the hooks return: [reply, err]
HookOk(reply) == [reply |-> reply, err |-> FALSE]
HookErr == [reply |-> EmptyStr, err |-> TRUE]

\* (variant: the authorization step runs before the onboarding step)
UpdateBeginAuthFirst(update, ptr, sr, ar) ==
    LET isStart == HasPrefix(update.text, StartCmd)
        payload == TrimSpace(TrimPrefix(update.text, StartCmd))
        startCalled == isStart /\ opts.handleStart
        t0 == [NoTrace EXCEPT !.src = "update", !.user = update.user,
                              !.chat = update.chat,
                              !.len0 = Len(contexts[update.user]),
                              !.authCalled = opts.authorize,
                              !.authErr = opts.authorize /\ ar.err,
                              !.authReply = IF opts.authorize /\ ~ar.err THEN ar.reply
                                            ELSE EmptyStr]
        ret(t) == [contexts |-> contexts,
                   trace |-> [t EXCEPT !.committed = ptr, !.done = TRUE],
                   done |-> TRUE]
        t1 == [t0 EXCEPT !.startCalled = startCalled,
                         !.startErr = startCalled /\ sr.err,
                         !.payload = IF startCalled THEN payload ELSE EmptyStr,
                         !.startReply = IF startCalled /\ ~sr.err THEN sr.reply
                                        ELSE EmptyStr]
    IN IF opts.authorize /\ ar.err THEN ret(Send(t0, update.chat, SorryText))
       ELSE IF opts.authorize /\ ar.reply # EmptyStr
            THEN ret(Send(t0, update.chat, ar.reply))
       ELSE IF startCalled /\ sr.err THEN ret(Send(t1, update.chat, SorryText))
       ELSE IF startCalled /\ sr.reply # EmptyStr THEN ret(Send(t1, update.chat, sr.reply))
       ELSE [contexts |-> AppendTo(contexts, update.user, userMessage(update)),
             trace |-> Log(t1, "append", update.text, "user"),
             done |-> FALSE]

\* (variant: the update is appended to the context before the hooks run)
UpdateBeginAppendFirst(update, ptr, sr, ar) ==
    LET isStart == HasPrefix(update.text, StartCmd)
        payload == TrimSpace(TrimPrefix(update.text, StartCmd))
        startCalled == isStart /\ opts.handleStart
        appended == AppendTo(contexts, update.user, userMessage(update))
        t0 == [NoTrace EXCEPT !.src = "update", !.user = update.user,
                              !.chat = update.chat,
                              !.len0 = Len(contexts[update.user]),
                              !.startCalled = startCalled,
                              !.startErr = startCalled /\ sr.err,
                              !.payload = IF startCalled THEN payload ELSE EmptyStr,
                              !.startReply = IF startCalled /\ ~sr.err THEN sr.reply
                                             ELSE EmptyStr]
        ret(t) == [contexts |-> appended,
                   trace |-> [t EXCEPT !.committed = ptr, !.done = TRUE],
                   done |-> TRUE]
        t1 == [t0 EXCEPT !.authCalled = opts.authorize,
                         !.authErr = opts.authorize /\ ar.err,
                         !.authReply = IF opts.authorize /\ ~ar.err THEN ar.reply
                                       ELSE EmptyStr]
    IN IF startCalled /\ sr.err THEN ret(Send(t0, update.chat, SorryText))
       ELSE IF startCalled /\ sr.reply # EmptyStr THEN ret(Send(t0, update.chat, sr.reply))
       ELSE IF opts.authorize /\ ar.err THEN ret(Send(t1, update.chat, SorryText))
       ELSE IF opts.authorize /\ ar.reply # EmptyStr
            THEN ret(Send(t1, update.chat, ar.reply))
       ELSE [contexts |-> appended, trace |-> Log(t1, "append", update.text, "user"),
             done |-> FALSE]

\* The part of handleTelegramUpdate before the turn. update is the update, ptr
\* tells whether offsetPtr is non-nil, sr and ar are what HandleStart and
\* Authorize return when they are called. The result gives the new context
\* table, counter table, trace, and whether the handler returned (done).
UpdateBegin(update, ptr, sr, ar) ==
    LET isStart == HasPrefix(update.text, StartCmd)
        payload == TrimSpace(TrimPrefix(update.text, StartCmd))
        startCalled == isStart /\ opts.handleStart
        t0 == [NoTrace EXCEPT !.src = "update", !.user = update.user,
                              !.chat = update.chat,
                              !.len0 = Len(contexts[update.user]),
                              !.startCalled = startCalled,
                              !.startErr = startCalled /\ sr.err,
                              !.payload = IF startCalled THEN payload ELSE EmptyStr,
                              !.startReply = IF startCalled /\ ~sr.err THEN sr.reply
                                             ELSE EmptyStr]
        ret(t) == [contexts |-> contexts,
                   trace |-> [t EXCEPT !.committed = ptr, !.done = TRUE],
                   done |-> TRUE]
        t1 == [t0 EXCEPT !.authCalled = opts.authorize,
                         !.authErr = opts.authorize /\ ar.err,
                         !.authReply = IF opts.authorize /\ ~ar.err THEN ar.reply
                                       ELSE EmptyStr]
    IN IF startCalled /\ sr.err THEN ret(Send(t0, update.chat, SorryText))
       ELSE IF startCalled /\ sr.reply # EmptyStr THEN ret(Send(t0, update.chat, sr.reply))
       ELSE IF opts.authorize /\ ar.err THEN ret(Send(t1, update.chat, SorryText))
       ELSE IF opts.authorize /\ ar.reply # EmptyStr
            THEN ret(Send(t1, update.chat, ar.reply))
       ELSE [contexts |-> AppendTo(contexts, update.user, userMessage(update)),
             trace |-> Log(t1, "append", update.text, "user"),
             done |-> FALSE]

\* (variant: the reset clears the counters of all users)
ResetCountAll(c, u) == [v \in DOMAIN c |-> 0]

\* a.consecutiveEventCount[update.UserID] = 0
ResetCount(c, u) == [c EXCEPT ![u] = 0]

HandleUpdateEffects(update, ptr, sr, ar) ==
    LET r == UpdateBegin(update, ptr, sr, ar)
    IN /\ cnt' = ResetCount(cnt, update.user)
       /\ routed' = [routed EXCEPT ![update.user] = 0]
       /\ contexts' = r.contexts
       /\ tr' = r.trace
       /\ turn' = NoTurn
       /\ IF r.done
          THEN /\ pc' = "idle"
               /\ cur' = NoCur
               /\ offset' = IF ptr THEN update.id + 1 ELSE offset
          ELSE /\ pc' = "llm"
               /\ cur' = [src |-> "update", upd |-> update, ev |-> NoEvent, ptr |-> ptr]
               /\ offset' = offset

\* runTelegramOnly: for _, update := range updates { handleTelegramUpdate(.., &offset) }
TelegramOnlyHandle(sr, ar) ==
    /\ opts.bus = "none"
    /\ pc = "idle"
    /\ batch # <<>>
    /\ HandleUpdateEffects(Head(batch), TRUE, sr, ar)
    /\ batch' = Tail(batch)
    /\ last' = NoLast
    /\ UNCHANGED <<opts, busVars, now, updCh, cancelled, hist>>

\* runUnified: case update := <-telegramUpdateCh: handleTelegramUpdate(.., nil)
UnifiedHandleUpdate(sr, ar) ==
    /\ opts.bus # "none"
    /\ pc = "idle"
    /\ updCh # <<>>
    /\ HandleUpdateEffects(Head(updCh), FALSE, sr, ar)
    /\ updCh' = Tail(updCh)
    /\ last' = NoLast
    /\ UNCHANGED <<opts, busVars, now, batch, cancelled, hist>>

\* runUnified: case <-ctx.Done(): return ctx.Err()
UnifiedReturn ==
    /\ opts.bus # "none"
    /\ pc = "idle"
    /\ cancelled
    /\ pc' = "stopped"
    /\ last' = NoLast
    /\ UNCHANGED <<opts, busVars, now, contexts, cnt, cur, turn, tr, routed, pollVars,
                   cancelled, hist>>

----------------------------------------------------------------------------
(* handleEvent *)

\* (variant: the content of every kind of event is used as it is)
EventTextRaw(ev) == ev.content

\* The synthesized user message of a bus event
EventText(ev) == IF ev.kind = "relay" THEN RelayText(ev.source, ev.content) ELSE ev.content

EventMessage(ev) == [role |-> "user", content |-> <<TextBlock(EventText(ev))>>,
                     usage |-> NoUsage]

\* a.consecutiveEventCount[event.TargetID]++
BumpCount(c, u) == [c EXCEPT ![u] = @ + 1]

\* (variant: the throttle starts one event later)
ThrottledLate(c, u) == c[u] > ThrottleLimit + 1

\* if a.consecutiveEventCount[event.TargetID] > 10
Throttled(c, u) == c[u] > ThrottleLimit

\* (variant: handleEvent is started for an event while the dispatcher is still
\* inside the handler of the item before)
UnifiedHandleEventAsync ==
    /\ opts.bus # "none"
    /\ pc \notin {"boot", "stopped"}
    /\ ch # <<>>
    /\ LET ev == Head(ch)
           c2 == BumpCount(cnt, ev.target)
           t0 == [NoTrace EXCEPT !.src = "event", !.user = ev.target, !.chat = ev.chat,
                                 !.len0 = Len(contexts[ev.target])]
       IN /\ ch' = Tail(ch)
          /\ cnt' = c2
          /\ routed' = [routed EXCEPT ![ev.target] = @ + 1]
          /\ hist' = HistDeliver(hist, ev)
          /\ cur' = [src |-> "event", upd |-> NoUpdate, ev |-> ev, ptr |-> FALSE]
          /\ turn' = NoTurn
          /\ IF Throttled(c2, ev.target)
             THEN /\ pc' = "sleep"
                  /\ tr' = t0
                  /\ contexts' = contexts
             ELSE /\ pc' = "llm"
                  /\ tr' = Log(t0, "append", EventText(ev), "user")
                  /\ contexts' = AppendTo(contexts, ev.target, EventMessage(ev))
    /\ last' = NoLast
    /\ UNCHANGED <<opts, store, now, pollVars, cancelled>>

\* runUnified: case event := <-a.opts.EventBus.Subscribe(): handleEvent, up to
\* the throttle sleep, or up to the turn when the event is not throttled
UnifiedHandleEvent ==
    /\ opts.bus # "none"
    /\ pc = "idle"
    /\ ch # <<>>
    /\ LET ev == Head(ch)
           c2 == BumpCount(cnt, ev.target)
           t0 == [NoTrace EXCEPT !.src = "event", !.user = ev.target, !.chat = ev.chat,
                                 !.len0 = Len(contexts[ev.target])]
       IN /\ ch' = Tail(ch)
          /\ cnt' = c2
          /\ routed' = [routed EXCEPT ![ev.target] = @ + 1]
          /\ hist' = HistDeliver(hist, ev)
          /\ cur' = [src |-> "event", upd |-> NoUpdate, ev |-> ev, ptr |-> FALSE]
          /\ turn' = NoTurn
          /\ IF Throttled(c2, ev.target)
             THEN /\ pc' = "sleep"
                  /\ tr' = t0
                  /\ contexts' = contexts
             ELSE /\ pc' = "llm"
                  /\ tr' = Log(t0, "append", EventText(ev), "user")
                  /\ contexts' = AppendTo(contexts, ev.target, EventMessage(ev))
    /\ last' = NoLast
    /\ UNCHANGED <<opts, store, now, pollVars, cancelled>>

\* handleEvent: case <-time.After(30 * time.Second), then the append. The
\* select is decided by the first of its two cases to become ready: the timer
\* is not ready when the select is entered, so it wins only when it fires
\* while the context is not cancelled.
ThrottleWake ==
    /\ pc = "sleep"
    /\ ~cancelled
    /\ tr' = Log([tr EXCEPT !.slept = ThrottleSleepSec], "append", EventText(cur.ev), "user")
    /\ contexts' = AppendTo(contexts, cur.ev.target, EventMessage(cur.ev))
    /\ pc' = "llm"
    /\ last' = NoLast
    /\ UNCHANGED <<opts, busVars, now, cnt, cur, turn, routed, pollVars, cancelled,
                   hist>>

\* (variant: the return on cancellation goes through MarkProcessed)
ThrottleCancelMarked ==
    /\ pc = "sleep"
    /\ cancelled
    /\ tr' = tr
    /\ pc' = "mark"
    /\ cur' = cur
    /\ last' = NoLast
    /\ UNCHANGED <<opts, busVars, now, contexts, cnt, turn, routed, pollVars, cancelled,
                   hist>>

\* handleEvent: case <-ctx.Done(): return
ThrottleCancel ==
    /\ pc = "sleep"
    /\ cancelled
    /\ tr' = [tr EXCEPT !.done = TRUE]
    /\ pc' = "idle"
    /\ cur' = NoCur
    /\ last' = NoLast
    /\ UNCHANGED <<opts, busVars, now, contexts, cnt, turn, routed, pollVars, cancelled,
                   hist>>

\* pb.MarkProcessed(ctx, event.EventID): the UPDATE fails when the database
\* does and when ctx is already cancelled
MarkProcessed(dbOk) ==
    /\ pc = "mark"
    /\ LET ok == dbOk /\ ~cancelled
       IN /\ store' = IF ok THEN MarkRows(store, cur.ev.event_id, now) ELSE store
          /\ hist' = HistMark(hist, cur.ev.event_id, store, ok)
          /\ last' = [op |-> "mark", ev |-> cur.ev, err |-> ~ok, replayed |-> <<>>]
    /\ pc' = "idle"
    /\ cur' = NoCur
    /\ tr' = [tr EXCEPT !.done = TRUE]
    /\ UNCHANGED <<opts, ch, now, contexts, cnt, turn, routed, pollVars, cancelled>>

----------------------------------------------------------------------------
(* runLLMTurn *)

CurUser == IF cur.src = "update" THEN cur.upd.user ELSE cur.ev.target
CurChat == IF cur.src = "update" THEN cur.upd.chat ELSE cur.ev.chat

\* if pb, ok := a.opts.EventBus.(*PersistentBus); ok && event.EventID != ""
MustMark == cur.src = "event" /\ opts.bus = "persistent" /\ cur.ev.event_id # ""

\* The return of runLLMTurn into its caller, up to the caller's next call
TurnEnd(t) ==
    /\ turn' = NoTurn
    /\ offset' = IF cur.src = "update" /\ cur.ptr THEN cur.upd.id + 1 ELSE offset
    /\ IF MustMark
       THEN /\ pc' = "mark"
            /\ cur' = cur
            /\ tr' = t
       ELSE /\ pc' = "idle"
            /\ cur' = NoCur
            /\ tr' = [t EXCEPT !.done = TRUE,
                               !.committed = (cur.src = "update" /\ cur.ptr)]

\* (variant: the generic message is appended as an assistant message too)
ErrOutcomeAppended(t) ==
    [contexts |-> AppendTo(contexts, CurUser, assistantMessage(SorryText)),
     trace |-> Send(Log(t, "append", SorryText, "assistant"), CurChat, SorryText)]

\* runLLMTurn, if err != nil: the generic message is sent, nothing is appended
ErrOutcome(t) ==
    [contexts |-> contexts, trace |-> Send(t, CurChat, SorryText)]

\* (variant: the text is sent and not appended)
TextOutcomeNoAppend(t, resp) ==
    [contexts |-> contexts, trace |-> Send(t, CurChat, resp.text)]

\* (variant: the text is sent before the assistant message is appended)
TextOutcomeSendFirst(t, resp) ==
    [contexts |-> AppendTo(contexts, CurUser,
                           WithUsage(assistantMessage(resp.text), resp.usage)),
     trace |-> Log(Send(t, CurChat, resp.text), "append", resp.text, "assistant")]

\* runLLMTurn, if resp.Type == "text": the assistant message is appended with
\* its usage, then the text is sent
TextOutcome(t, resp) ==
    [contexts |-> AppendTo(contexts, CurUser,
                           WithUsage(assistantMessage(resp.text), resp.usage)),
     trace |-> Send(Log(t, "append", resp.text, "assistant"), CurChat, resp.text)]

\* runLLMTurn, fallback for an unexpected response type
FallbackOutcome(t, resp) ==
    [contexts |-> AppendTo(contexts, CurUser, assistantMessage(resp.text)),
     trace |-> Send(Log(t, "append", resp.text, "assistant"), CurChat, resp.text)]

\* (variant: the tool_use branch sends a notice to the chat)
ToolUseOutcomeSent(t, resp) ==
    [contexts |-> AppendTo(contexts, CurUser,
                           WithUsage(assistantToolUseMessage(resp.calls), resp.usage)),
     trace |-> Send(Log(t, "append", EmptyStr, "assistant"), CurChat, resp.text)]

\* runLLMTurn, if resp.Type == "tool_use": the tool_use message is appended
ToolUseOutcome(t, resp) ==
    [contexts |-> AppendTo(contexts, CurUser,
                           WithUsage(assistantToolUseMessage(resp.calls), resp.usage)),
     trace |-> Log(t, "append", EmptyStr, "assistant")]

\* One iteration of the loop of runLLMTurn: the call of the model and what
\* follows it, up to the first tool dispatch. resp is what LLM.Chat returns:
\* [type, text, calls, usage], type "err" standing for a returned error
LLMCall(resp) ==
    /\ pc = "llm"
    /\ LET t1 == Log([tr EXCEPT !.llmCalls = @ + 1], "chat", EmptyStr, resp.type)
           out == CASE resp.type = "err" -> ErrOutcome(t1)
                    [] resp.type = "text" -> TextOutcome(t1, resp)
                    [] resp.type = "tool_use" -> ToolUseOutcome(t1, resp)
                    [] OTHER -> FallbackOutcome(t1, resp)
       IN IF resp.type = "tool_use"
          THEN IF resp.calls = <<>>
               THEN \* no call to dispatch: the empty result message follows at once
                    /\ contexts' = AppendTo(out.contexts, CurUser, toolResultMessage(<<>>))
                    /\ tr' = Log(out.trace, "append", EmptyStr, "user")
                    /\ UNCHANGED <<pc, turn, cur, offset>>
               ELSE /\ contexts' = out.contexts
                    /\ turn' = [calls |-> resp.calls, idx |-> 1, results |-> <<>>]
                    /\ pc' = "tools"
                    /\ tr' = out.trace
                    /\ UNCHANGED <<cur, offset>>
          ELSE /\ contexts' = out.contexts
               /\ TurnEnd(out.trace)
    /\ last' = NoLast
    /\ UNCHANGED <<opts, busVars, now, cnt, routed, batch, updCh, cancelled, hist>>

\* The relay event of sendUserMessageTool.Execute
RelayEvent(to, text, sender, eid) ==
    [kind |-> "relay", target |-> to, chat |-> to, content |-> text, source |-> sender,
     event_id |-> eid]

DmText == <<"d", "m">>
SenderName == <<"B">>

\* One dispatch of the for loop over resp.ToolCalls, and after the last one the
\* append of the tool results. out is the way the handler ends: "err", "ok",
\* and for send_user_message also "sent" (delivered and injected) and "relay"
\* (delivered, injected and a relay event published with id eid).
ToolExec(out, eid, dbOk) ==
    /\ pc = "tools"
    /\ LET call == turn.calls[turn.idx]
           isDm == call.name = "send_user_message" /\ call.arg # CurUser
           sent == isDm /\ out \in {"sent", "relay"}
           relay == isDm /\ out = "relay" /\ opts.bus # "none"
           res == WithCallId(Execute(call.name, out # "err"), call)
           results == Append(turn.results, toolResultBlock(res))
           c1 == IF sent THEN AppendTo(contexts, call.arg, assistantMessage(DmText))
                 ELSE contexts
           pub == BusPublish(opts.bus, store, ch,
                             RelayEvent(call.arg, DmText, SenderName, eid), now, dbOk)
           last1 == turn.idx = Len(turn.calls)
           t1 == Log(tr, "exec", <<out>>, call.id)
           t2 == IF sent THEN Log(t1, "inject", DmText, "assistant") ELSE t1
       IN /\ out \in (IF call.name = "send_user_message" THEN {"err", "ok", "sent", "relay"}
                      ELSE {"err", "ok"})
          /\ IF relay
             THEN /\ store' = pub.store
                  /\ ch' = pub.ch
                  /\ hist' = IF opts.bus = "persistent"
                             THEN HistPublish(hist, RelayEvent(call.arg, DmText,
                                                               SenderName, eid), pub)
                             ELSE hist
                  /\ last' = [op |-> "publish",
                              ev |-> RelayEvent(call.arg, DmText, SenderName, eid),
                              err |-> pub.err, replayed |-> <<>>]
             ELSE /\ UNCHANGED <<store, ch, hist>>
                  /\ last' = NoLast
          /\ IF last1
             THEN /\ contexts' = AppendTo(c1, CurUser, toolResultMessage(results))
                  /\ turn' = NoTurn
                  /\ pc' = "llm"
                  /\ tr' = Log(t2, "append", EmptyStr, "user")
             ELSE /\ contexts' = c1
                  /\ turn' = [turn EXCEPT !.idx = @ + 1, !.results = results]
                  /\ pc' = "tools"
                  /\ tr' = t2
    /\ UNCHANGED <<opts, now, cnt, cur, routed, pollVars, cancelled>>

----------------------------------------------------------------------------
(* Inputs *)

WelcomeText == <<"w", "e", "l", "c", "o", "m", "e">>
DeniedText == <<"d", "e", "n", "i", "e", "d">>
OkText == <<"o", "k">>
DueText == <<"d", "u", "e">>

Texts == {TextHello, TextStartToken, TextStartGlued}
StartResults == {HookOk(EmptyStr), HookOk(WelcomeText), HookErr}
AuthResults == {HookOk(EmptyStr), HookOk(DeniedText), HookErr}

Call(id, name, arg) == [id |-> id, name |-> name, arg |-> arg]

Resp(type, text, calls, usage) ==
    [type |-> type, text |-> text, calls |-> calls, usage |-> usage]

ToolCallLists ==
    {<<Call("c1", "echo", 0)>>,
     <<Call("c1", "nope", 0), Call("c2", "echo", 0)>>}
    \cup {<<Call("c1", "send_user_message", v)>> : v \in Users}

Responses ==
    {Resp("err", EmptyStr, <<>>, NoUsage),
     Resp("text", OkText, <<>>, Usage(3, 2)),
     Resp("refusal", OkText, <<>>, Usage(3, 2))}
    \cup {Resp("tool_use", EmptyStr, c, Usage(3, 2)) : c \in ToolCallLists}

----------------------------------------------------------------------------
(* The bounds of the model, as guards *)

\* the dispatcher takes an item for u only while u's context is short
CtxRoom(u) == Len(contexts[u]) < MaxCtxLen

\* what a response may append stays within the bounds
RespRoom(resp) ==
    resp.type = "tool_use" =>
        /\ tr.llmCalls + 1 < MaxLLMCalls
        /\ \A i \in DOMAIN resp.calls :
              resp.calls[i].name = "send_user_message" =>
                  resp.calls[i].arg \in Users /\ CtxRoom(resp.calls[i].arg)

QueueRoom == Len(ch) < MaxQueue

----------------------------------------------------------------------------------------------------------------------------------------------------
(* The persistent bus: producers, the dispatcher's event turns, crashes and *)
(* restarts with replay                                                     *)

BusConfig == [bus |-> "persistent", handleStart |-> FALSE, authorize |-> FALSE]

BusEvents ==
    {RelayEvent(1, DmText, SenderName, "e1"),
     [kind |-> "reminder", target |-> 1, chat |-> 1, content |-> DueText,
      source |-> <<"reminder">>, event_id |-> "e2"]}

BusResponses == {r \in Responses : r.type \in {"err", "text"}}

InitBus == InitWith(BusConfig)

NextBus ==
    \/ (Tick /\ UNCHANGED auxVars)
    \/ (UNCHANGED auxVars /\ \E dbOk \in BOOLEAN : Startup(dbOk))
    \/ (Restart /\ UNCHANGED auxVars)
    \/ (QueueRoom /\ UNCHANGED auxVars /\
           \E ev \in BusEvents, dbOk \in BOOLEAN : Publish(ev, dbOk))
    \/ (ch # <<>> /\ CtxRoom(Head(ch).target) /\ UnifiedHandleEvent /\ UNCHANGED auxVars)
    \/ (pc = "llm" /\ UNCHANGED auxVars /\ \E resp \in BusResponses : LLMCall(resp))
    \/ (UNCHANGED auxVars /\ \E dbOk \in BOOLEAN : MarkProcessed(dbOk))

SpecBus == InitBus /\ [][NextBus]_vars

----------------------------------------------------------------------------
(* Claims on the persistent bus, checked under SpecBus *)

InCh(e) == \E i \in DOMAIN ch : ch[i].event_id = e
RowUnprocessed(e) == \E i \in DOMAIN store : store[i].event_id = e /\ store[i].processed_at = 0
RowsOf(e) == {i \in DOMAIN store : store[i].event_id = e}

\* C1: once MarkProcessed has returned without error for a persisted event, no
\* later ReplayUnprocessed puts that event on the in-memory bus: right after a
\* replay the bus holds no event that was marked before it.
C1_NoReplayAfterMark ==
    [][last'.op = "replay" =>
          \A i \in DOMAIN ch' : ~hist[ch'[i].event_id].marked]_vars

\* a replay that re-published an event while another event was already marked
C1_Witness ==
    /\ last.op = "replay"
    /\ last.replayed # <<>>
    /\ \E e \in EventIds : hist[e].marked

\* C2 as stated: every event published on the persistent bus is delivered, or
\* still on its way to the consumer (queued in memory, or unprocessed in the
\* table for the next replay).
C2_EveryPublishedDelivered ==
    \A e \in EventIds :
        hist[e].published => hist[e].delivered \/ InCh(e) \/ RowUnprocessed(e)

\* C2 amended: an event whose row is in the table stays unprocessed there, to
\* be re-published by the next replay, until it has been delivered and marked;
\* and a replay that succeeds puts every unprocessed row on the in-memory bus.
C2_PersistedAtLeastOnce ==
    [][/\ \A e \in EventIds :
             hist'[e].persisted =>
                 \/ \E i \in DOMAIN store' :
                       store'[i].event_id = e /\ store'[i].processed_at = 0
                 \/ hist'[e].delivered /\ hist'[e].marked
       /\ (last'.op = "replay" /\ ~last'.err) =>
             \A i \in Unprocessed(store) :
                 \E j \in DOMAIN ch' : ch'[j] = RowEvent(store[i])]_vars

\* an event delivered but not marked before a crash is back on the bus after
\* the replay of the next start
C2_Witness ==
    /\ last.op = "replay"
    /\ \E e \in EventIds : hist[e].delivered /\ ~hist[e].marked /\ InCh(e)

\* C3: the table holds at most one row per event_id, and exactly one for every
\* event a publish has persisted, however often it was published.
C3_OneRowPerEventId ==
    /\ \A i, j \in DOMAIN store : store[i].event_id = store[j].event_id => i = j
    /\ \A e \in EventIds : hist[e].persisted => Cardinality(RowsOf(e)) = 1

\* an event published again, without error, after it had already been delivered
C3_Witness ==
    /\ last.op = "publish"
    /\ ~last.err
    /\ hist[last.ev.event_id].delivered
    /\ Cardinality(RowsOf(last.ev.event_id)) = 1

\* C4 as stated: processed_at of a row is written once: a row whose
\* processed_at is set keeps that value in every later step.
C4_ProcessedAtSetOnce ==
    [][\A i \in DOMAIN store :
          store[i].processed_at # 0 =>
              i \in DOMAIN store' /\ store'[i].processed_at = store[i].processed_at]_vars

\* C5: when the insert of Publish fails, the table is left as it was and the
\* event is put at the end of the in-memory queue by the same call.
C5_ForwardDespiteInsertError ==
    [][(last'.op = "publish" /\ last'.err) =>
          /\ store' = store
          /\ ch' = IF Len(ch) < BusCap THEN Append(ch, last'.ev) ELSE ch]_vars

\* a publish whose insert failed, behind an event already queued
C5_Witness ==
    /\ last.op = "publish"
    /\ last.err
    /\ Len(ch) >= 2
    /\ ch[Len(ch)] = last.ev

----------------------------------------------------------------------------
(* The in-memory bus filled to its capacity: a producer that numbers its   *)
(* events (the number is the chat id) and the dispatcher as the consumer   *)

MaxPub == 258

MemConfig == [bus |-> "mem", handleStart |-> FALSE, authorize |-> FALSE]

NumberedEvent(n) ==
    [kind |-> "reminder", target |-> 1, chat |-> n, content |-> DueText,
     source |-> <<"reminder">>, event_id |-> ""]

InitMem == InitWith(MemConfig)

PublishNumbered ==
    /\ npub < MaxPub
    /\ Publish(NumberedEvent(npub + 1), TRUE)
    /\ npub' = npub + 1
    /\ UNCHANGED <<typing, sideVars>>

NextMem ==
    \/ (Startup(TRUE) /\ UNCHANGED auxVars)
    \/ PublishNumbered
    \/ (ch # <<>> /\ CtxRoom(Head(ch).target) /\ UnifiedHandleEvent /\ UNCHANGED auxVars)
    \/ (pc = "llm" /\ LLMCall(Resp("text", OkText, <<>>, Usage(3, 2))) /\ UNCHANGED auxVars)

SpecMem == InitMem /\ [][NextMem]_vars

\* C6: the in-memory queue never holds more than 256 events; a publish on a
\* queue of 256 events drops the published event and leaves the queue as it
\* was; a publish on a shorter queue appends the event. In the model a publish
\* is one step that is enabled whatever the queue holds.
C6_PublishDropsWhenFull ==
    [][/\ Len(ch') <= BusCap
       /\ (last'.op = "publish" /\ Len(ch) = BusCap) => ch' = ch
       /\ (last'.op = "publish" /\ Len(ch) < BusCap) => ch' = Append(ch, last'.ev)]_vars

\* a publish was dropped: the queue is full and does not end with the event
\* just published
C6_Witness ==
    /\ last.op = "publish"
    /\ Len(ch) = BusCap
    /\ ch[Len(ch)].chat < last.ev.chat
    /\ ch[1].chat > 1

----------------------------------------------------------------------------
(* The self-talk throttle: a producer of events for both users, updates    *)
(* that the authorization hook rejects, the dispatcher, and cancellation   *)

MaxChain == 12

ThrottleConfig == [bus |-> "mem", handleStart |-> FALSE, authorize |-> TRUE]

Heartbeat(u) ==
    [kind |-> "heartbeat", target |-> u, chat |-> ChatOf(u), content |-> OkText,
     source |-> <<"system">>, event_id |-> ""]

\* the producer stops when the target's context or chain of events is long
ChainRoom(u) ==
    LET room == IF u = 1 THEN MaxChain ELSE MaxCtxLen
    IN Len(contexts[u]) < room /\ cnt[u] < room

InitThrottle == InitWith(ThrottleConfig)

NextThrottle ==
    \/ (Startup(TRUE) /\ UNCHANGED auxVars)
    \/ (Cancel /\ UNCHANGED auxVars)
    \/ (ch = <<>> /\ UNCHANGED auxVars /\
           \E u \in Users : ChainRoom(u) /\ Publish(Heartbeat(u), TRUE))
    \/ (updCh = <<>> /\ UNCHANGED auxVars /\
           \E b \in PollResults(offset, {TextHello}) : Len(b) = 1 /\ PollerPoll(b))
    \/ (PollerForward /\ UNCHANGED auxVars)
    \/ (PollerAbort /\ UNCHANGED auxVars)
    \/ (UnifiedHandleUpdate(HookOk(EmptyStr), HookOk(DeniedText)) /\ UNCHANGED auxVars)
    \/ (UnifiedHandleEvent /\ UNCHANGED auxVars)
    \/ (ThrottleWake /\ UNCHANGED auxVars)
    \/ (ThrottleCancel /\ UNCHANGED auxVars)
    \/ (pc = "llm" /\ LLMCall(Resp("err", EmptyStr, <<>>, NoUsage)) /\ UNCHANGED auxVars)
    \/ (UnifiedReturn /\ UNCHANGED auxVars)

SpecThrottle == InitThrottle /\ [][NextThrottle]_vars

----------------------------------------------------------------------------
(* Claims on the throttle and its counter, checked under SpecThrottle *)

\* the step in which the dispatcher takes an event from the bus
EventStep == pc = "idle" /\ ch # <<>> /\ ch' = Tail(ch) /\ cur'.src = "event"

\* the step in which the dispatcher (of either loop) takes an update
UpdateStep ==
    /\ pc = "idle"
    /\ tr'.src = "update"
    /\ IF opts.bus = "none" THEN batch # <<>> /\ batch' = Tail(batch)
       ELSE updCh # <<>> /\ updCh' = Tail(updCh)

HandledUpdate == IF opts.bus = "none" THEN Head(batch) ELSE Head(updCh)

\* C7: when the dispatcher takes a bus event for user u that is more than the
\* 10th consecutive one for u (no update from u in between), it parks before
\* anything else: the context is not touched and the model is not called. It
\* leaves the park only after the 30 s sleep, and then appends the event and
\* goes on to the model, or earlier on cancellation, and then drops the event
\* with the context untouched and the model not called. So an event turn of a
\* throttled event is always preceded by the 30 s sleep.
C7_ThrottleBeforeProcessing ==
    [][/\ (EventStep /\ routed'[cur'.ev.target] > ThrottleLimit) =>
              /\ pc' = "sleep"
              /\ contexts' = contexts
              /\ tr'.llmCalls = 0 /\ tr'.slept = 0
       /\ (pc = "sleep" /\ pc' # "sleep") =>
              \/ /\ tr'.slept = ThrottleSleepSec
                 /\ pc' = "llm" /\ tr'.llmCalls = 0
                 /\ contexts' = AppendTo(contexts, cur.ev.target, EventMessage(cur.ev))
              \/ /\ cancelled
                 /\ pc' = "idle" /\ tr'.llmCalls = 0 /\ tr'.done
                 /\ contexts' = contexts
       /\ (pc = "sleep" /\ pc' = "sleep") => (contexts' = contexts /\ tr' = tr)
       /\ (/\ cur'.src = "event"
           /\ routed'[cur'.ev.target] > ThrottleLimit
           /\ pc' \in {"llm", "tools", "mark"}) => tr'.slept = ThrottleSleepSec]_vars

\* the 11th consecutive event of user 1 reaches the model, after the sleep
C7_Witness ==
    /\ pc = "llm"
    /\ cur.src = "event"
    /\ cur.ev.target = 1
    /\ routed[1] = ThrottleLimit + 1
    /\ tr.slept = ThrottleSleepSec
    /\ Len(contexts[1]) >= ThrottleLimit + 1

\* C8: the counter of every user equals the number of bus events routed to
\* the user since the last update from that user (or since the start). A step
\* that takes an event for u adds exactly one to u's counter, a step that
\* takes an update from u sets it to zero, and no other step changes it: not
\* the throttle sleep, not an update or an event of another user.
C8_CounterCountsRoutedEvents ==
    [][/\ cnt' = routed'
       /\ EventStep => cnt'[cur'.ev.target] = cnt[cur'.ev.target] + 1
       /\ UpdateStep => cnt'[HandledUpdate.user] = 0
       /\ \A u \in Users :
             cnt'[u] # cnt[u] =>
                 \/ EventStep /\ cur'.ev.target = u
                 \/ UpdateStep /\ HandledUpdate.user = u]_vars

\* an update from user 1 has just reset a counter that had passed the
\* throttle limit, and the counter of user 2 still holds its two events
C8_Witness ==
    /\ tr.src = "update" /\ tr.user = 1 /\ tr.done
    /\ cnt[1] = 0
    /\ cnt[2] = 2
    /\ Len(contexts[1]) > ThrottleLimit

----------------------------------------------------------------------------
(* The agent on updates: both loops, every configuration of the hooks,     *)
(* updates of two users, turns without tools, and cancellation             *)

AgentConfigs == [bus : {"none", "mem"}, handleStart : BOOLEAN, authorize : BOOLEAN]

\* what the model answers: an error, a text, or an unknown stop reason
AgentResponses == {r \in Responses : r.type # "tool_use"}

Init == \E o \in AgentConfigs : InitWith(o)

Next ==
    \/ (Startup(TRUE) /\ UNCHANGED auxVars)
    \/ (Cancel /\ UNCHANGED auxVars)
    \/ (opts.bus = "none" /\ pc = "idle" /\ batch = <<>> /\ UNCHANGED auxVars /\
           \E b \in PollResults(offset, Texts) : TelegramOnlyPoll(b))
    \/ (TelegramOnlyReturn /\ UNCHANGED auxVars)
    \/ (pc = "idle" /\ batch # <<>> /\ CtxRoom(Head(batch).user) /\ UNCHANGED auxVars /\
           \E sr \in StartResults, ar \in AuthResults : TelegramOnlyHandle(sr, ar))
    \/ (opts.bus # "none" /\ updCh = <<>> /\ batch = <<>> /\ UNCHANGED auxVars /\
           \E b \in PollResults(offset, Texts) : PollerPoll(b))
    \/ (PollerForward /\ UNCHANGED auxVars)
    \/ (PollerAbort /\ UNCHANGED auxVars)
    \/ (pc = "idle" /\ updCh # <<>> /\ CtxRoom(Head(updCh).user) /\ UNCHANGED auxVars /\
           \E sr \in StartResults, ar \in AuthResults : UnifiedHandleUpdate(sr, ar))
    \/ (UnifiedReturn /\ UNCHANGED auxVars)
    \/ (pc = "llm" /\ UNCHANGED auxVars /\
           \E resp \in AgentResponses : LLMCall(resp))

Spec == Init /\ [][Next]_vars

----------------------------------------------------------------------------
(* Claims on the handling of an update, checked under Spec *)

\* C9: when the text of an update starts with "/start" and the onboarding hook
\* returns a non-empty reply, the handler sends exactly that reply to the chat
\* and returns: the authorization hook is not called, the model is not
\* called, and no context changes. When the hook returns an empty reply (and
\* no error) the handler goes on to the authorization step: the authorization
\* hook is called if there is one, and otherwise the turn starts.
C9_OnboardingShortCircuit ==
    [][UpdateStep =>
         /\ tr'.startCalled =
                (HasPrefix(HandledUpdate.text, StartCmd) /\ opts.handleStart)
         /\ (tr'.startCalled /\ tr'.startReply # EmptyStr) =>
                /\ tr'.sends = <<[chat |-> HandledUpdate.chat, text |-> tr'.startReply]>>
                /\ ~tr'.authCalled
                /\ tr'.llmCalls = 0
                /\ pc' = "idle" /\ tr'.done
                /\ contexts' = contexts
         /\ (tr'.startCalled /\ ~tr'.startErr /\ tr'.startReply = EmptyStr) =>
                /\ tr'.authCalled = opts.authorize
                /\ (~opts.authorize) =>
                       /\ pc' = "llm"
                       /\ contexts' = AppendTo(contexts, HandledUpdate.user,
                                               userMessage(HandledUpdate))]_vars

\* a "/start" update was answered by the onboarding hook of an agent that
\* also has an authorization hook, for a user whose context is not empty
C9_Witness ==
    /\ tr.src = "update" /\ tr.done
    /\ tr.startCalled /\ tr.startReply = WelcomeText
    /\ tr.payload # EmptyStr
    /\ opts.authorize
    /\ tr.sends = <<[chat |-> tr.chat, text |-> WelcomeText]>>
    /\ contexts[tr.user] # <<>>

\* C10: when the authorization hook returns a non-empty rejection string for
\* an update, the handler sends exactly that string to the chat of the update
\* and returns: the model is not called, no context changes, and the offset
\* is past the update (set by the handler in the Telegram-only loop, by the
\* poller before the hand-over in the unified loop).
C10_AuthorizationGate ==
    [][(UpdateStep /\ tr'.authCalled /\ tr'.authReply # EmptyStr) =>
         /\ tr'.sends = <<[chat |-> HandledUpdate.chat, text |-> tr'.authReply]>>
         /\ tr'.llmCalls = 0
         /\ pc' = "idle" /\ tr'.done
         /\ contexts' = contexts
         /\ offset' >= HandledUpdate.id + 1
         /\ (opts.bus = "none") => offset' = HandledUpdate.id + 1]_vars

\* an update of a user with a non-empty context was rejected, in the
\* Telegram-only loop
C10_Witness ==
    /\ tr.src = "update" /\ tr.done
    /\ tr.authCalled /\ tr.authReply = DeniedText
    /\ opts.bus = "none"
    /\ tr.sends = <<[chat |-> tr.chat, text |-> DeniedText]>>
    /\ contexts[tr.user] # <<>>
    /\ offset = MaxSeq + 1

\* the updates that were polled and whose handling has not completed
PendingUpdates ==
    {batch[i] : i \in DOMAIN batch} \cup {updCh[i] : i \in DOMAIN updCh}
    \cup (IF cur.src = "update" THEN {cur.upd} ELSE {})

\* C11: in both loops the offset passes an update (is set to its id + 1) only
\* after the handling of the update, its turn included, has completed: no
\* update that is still waiting or being handled has an id below the offset.
C11_OffsetAfterHandling == \A u \in PendingUpdates : u.id >= offset

----------------------------------------------------------------------------
(* The turn: the unified loop without hooks, updates of two users, every   *)
(* kind of response, tool rounds with injections and relay events          *)

TurnConfig == [bus |-> "mem", handleStart |-> FALSE, authorize |-> FALSE]

\* the tool rounds of a response: none, an unknown and a registered tool, and
\* a message to either user
TurnCallLists ==
    {<<>>, <<Call("c1", "nope", 0), Call("c2", "echo", 0)>>}
    \cup {<<Call("c1", "send_user_message", v)>> : v \in Users}

\* the ways the handler of the call may end: a message to the sender's own id
\* is skipped and never delivered
TurnOuts(call) ==
    IF call.name = "send_user_message" /\ call.arg # CurUser
    THEN {"err", "sent", "relay"}
    ELSE {"err", "ok"}

TurnResponses ==
    {r \in Responses : r.type # "tool_use"}
    \cup {Resp("tool_use", EmptyStr, c, Usage(3, 2)) : c \in TurnCallLists}

\* Poll returns the updates one at a time
TurnPolls(off) == {b \in PollResults(off, {TextHello}) : Len(b) = 1}

InitTurn == InitWith(TurnConfig)

NextTurn ==
    \/ (Startup(TRUE) /\ UNCHANGED auxVars)
    \/ (updCh = <<>> /\ batch = <<>> /\ UNCHANGED auxVars /\
           \E b \in TurnPolls(offset) : PollerPoll(b))
    \/ (PollerForward /\ UNCHANGED auxVars)
    \/ (pc = "idle" /\ updCh # <<>> /\ CtxRoom(Head(updCh).user) /\ UNCHANGED auxVars /\
           UnifiedHandleUpdate(HookOk(EmptyStr), HookOk(EmptyStr)))
    \/ (ch # <<>> /\ CtxRoom(Head(ch).target) /\ UnifiedHandleEvent /\ UNCHANGED auxVars)
    \/ (pc = "llm" /\ UNCHANGED auxVars /\
           \E resp \in TurnResponses : RespRoom(resp) /\ LLMCall(resp))
    \/ (pc = "tools" /\ UNCHANGED auxVars /\
           \E out \in TurnOuts(turn.calls[turn.idx]) :
               (out = "relay" => ch = <<>>) /\ ToolExec(out, "e1", TRUE))

SpecTurn == InitTurn /\ [][NextTurn]_vars

----------------------------------------------------------------------------
(* Claims on the turn, checked under SpecTurn *)

\* the step in which the model is called, and the type of its response
ChatStep == pc = "llm" /\ tr'.llmCalls = tr.llmCalls + 1

ChatType == tr'.log[Len(tr.log) + 1].id

LastOf(q) == q[Len(q)]

\* C12: when the model answers with a text, the handler appends one assistant
\* message holding that text to the context of the turn's user and then
\* sends the same text to the turn's chat: nothing else happens in between,
\* and the append comes first.
C12_TextAppendedThenSent ==
    [][(ChatStep /\ ChatType = "text") =>
         LET n == Len(tr.log) + 1
             msg == LastOf(contexts'[CurUser])
         IN /\ Len(tr'.log) = n + 2
            /\ tr'.log[n + 1].op = "append" /\ tr'.log[n + 1].id = "assistant"
            /\ tr'.log[n + 2].op = "send"
            /\ tr'.log[n + 2].text = tr'.log[n + 1].text
            /\ contexts'[CurUser] = Append(contexts[CurUser], msg)
            /\ msg.role = "assistant"
            /\ msg.content = <<TextBlock(tr'.log[n + 1].text)>>
            /\ tr'.sends = Append(tr.sends, [chat |-> CurChat,
                                             text |-> msg.content[1].text])]_vars

\* a turn with a tool round has ended with a text: the context ends with the
\* assistant message of the text that was sent
C12_Witness ==
    /\ tr.done /\ tr.llmCalls = 2
    /\ LastOf(tr.log) = [op |-> "send", text |-> OkText, id |-> ""]
    /\ tr.log[Len(tr.log) - 2].id = "text"
    /\ LastOf(contexts[tr.user]).role = "assistant"
    /\ LastOf(contexts[tr.user]).content = <<TextBlock(OkText)>>
    /\ tr.sends = <<[chat |-> tr.chat, text |-> OkText]>>

\* an assistant message made of tool_use blocks
IsToolUseMessage(m) ==
    m.role = "assistant" /\ \A k \in DOMAIN m.content : m.content[k].type = "tool_use"

\* message i of context c is followed at once by the user message of its
\* results: as many tool_result blocks, the k-th with the id of the k-th call
ResultsFollow(c, i) ==
    /\ i < Len(c)
    /\ c[i + 1].role = "user"
    /\ Len(c[i + 1].content) = Len(c[i].content)
    /\ \A k \in DOMAIN c[i].content :
          /\ c[i + 1].content[k].type = "tool_result"
          /\ c[i + 1].content[k].id = c[i].content[k].id

\* C13: in every context every assistant tool_use message is followed at once
\* by one user message with one tool_result block per call, the i-th with
\* the id of the i-th call; the only exception is the last message of the
\* turn's own context while its tools are being dispatched. The tools of a
\* response are dispatched one by one in the order of the calls. Injections
\* and other turns do not break this.
C13_ToolResultsFollowCalls ==
    [][/\ \A u \in Users : \A i \in DOMAIN contexts'[u] :
             IsToolUseMessage(contexts'[u][i]) =>
                 \/ ResultsFollow(contexts'[u], i)
                 \/ /\ i = Len(contexts'[u])
                    /\ pc' = "tools"
                    /\ u = cur'.upd.user \/ u = cur'.ev.target
       /\ (ChatStep /\ pc' = "tools") => (turn'.idx = 1 /\ turn'.results = <<>>)
       /\ (pc = "tools" /\ tr' # tr) =>
             /\ LastOf(SelectSeq(tr'.log, LAMBDA e : e.op = "exec")).id
                    = turn.calls[turn.idx].id
             /\ \/ pc' = "tools" /\ turn'.idx = turn.idx + 1 /\ turn'.calls = turn.calls
                \/ pc' = "llm" /\ turn.idx = Len(turn.calls)]_vars

\* a context that starts with an injected message holds a round of two calls
\* with its two results, the first one the error of an unknown tool
C13_Witness ==
    \E u \in Users : \E i \in DOMAIN contexts[u] :
        /\ contexts[u][1] = assistantMessage(DmText)
        /\ IsToolUseMessage(contexts[u][i])
        /\ Len(contexts[u][i].content) = 2
        /\ ResultsFollow(contexts[u], i)
        /\ contexts[u][i + 1].content[1].is_error
        /\ contexts[u][i + 1].content[1].id = "c1"
        /\ contexts[u][i + 1].content[2].id = "c2"
        /\ tr.done

\* the calls of the model in a log
Chats(log) == SelectSeq(log, LAMBDA e : e.op = "chat")

\* C14: when a turn for user u has completed (the model was called at least
\* once), the context of u is at least one message longer than it was when
\* the handler took the update or event, and at least two longer when the
\* last response of the turn was a text.
C14_ContextGrows ==
    (tr.done /\ tr.llmCalls > 0) =>
        /\ Len(contexts[tr.user]) >= tr.len0 + 1
        /\ LastOf(Chats(tr.log)).id = "text" => Len(contexts[tr.user]) >= tr.len0 + 2

\* an event turn on a non-empty context has ended with a text after one call
C14_Witness ==
    /\ tr.done /\ tr.src = "event" /\ tr.llmCalls = 1
    /\ LastOf(Chats(tr.log)).id = "text"
    /\ tr.len0 > 0
    /\ Len(contexts[tr.user]) = tr.len0 + 2

\* C15: when a call of the model fails, at the first or at a later iteration
\* of the turn, the handler sends the generic message to the turn's chat,
\* once, and the turn is over: no context changes (no assistant message for
\* the failed call), and no model call or tool dispatch follows in the turn.
C15_ModelErrorEndsTurn ==
    [][(ChatStep /\ ChatType = "err") =>
         /\ contexts' = contexts
         /\ tr.sends = <<>>
         /\ tr'.sends = <<[chat |-> CurChat, text |-> SorryText]>>
         /\ tr'.log = tr.log \o <<[op |-> "chat", text |-> EmptyStr, id |-> "err"],
                                   [op |-> "send", text |-> SorryText, id |-> ""]>>
         /\ pc' \in {"idle", "mark"}
         /\ turn' = NoTurn]_vars

\* the second call of a turn failed, after a tool round: the generic message
\* was sent and the context ends with the results of the round
C15_Witness ==
    /\ tr.done /\ tr.llmCalls = 2
    /\ LastOf(Chats(tr.log)).id = "err"
    /\ tr.sends = <<[chat |-> tr.chat, text |-> SorryText]>>
    /\ LastOf(contexts[tr.user]).role = "user"
    /\ LastOf(contexts[tr.user]).content # <<>>
    /\ LastOf(contexts[tr.user]).content[1].type = "tool_result"

\* C16: a turn sends at most one message to its chat, whatever the model
\* answers and the tools return: none while it runs, one when it ends (the
\* text of the model or the generic message). The handler has a step for
\* every response of the model and for every outcome of a tool: it is never
\* stuck in the middle of a turn.
C16_AtMostOneSend ==
    /\ Len(tr.sends) <= 1
    /\ pc \in {"llm", "tools"} => tr.sends = <<>>
    /\ (tr.done /\ tr.llmCalls > 0) =>
          /\ Len(tr.sends) = 1
          /\ tr.sends[1].chat = tr.chat
          /\ LastOf(tr.log).op = "send"
    /\ pc = "llm" => \A resp \in TurnResponses : ENABLED LLMCall(resp)
    /\ pc = "tools" => \A out \in {"err", "ok"} : ENABLED ToolExec(out, "e1", TRUE)

\* a turn with a round of two tools has ended on a response of unknown type
\* with its single send
C16_Witness ==
    /\ tr.done /\ tr.llmCalls = 2
    /\ LastOf(Chats(tr.log)).id = "refusal"
    /\ Len(SelectSeq(tr.log, LAMBDA e : e.op = "exec")) = 2
    /\ Len(tr.sends) = 1

\* the step in which one tool is dispatched, the call, the way its handler
\* ended, and the result block the dispatch produced
ExecStep == pc = "tools" /\ tr' # tr

ExecCall == turn.calls[turn.idx]

ExecOut == LastOf(SelectSeq(tr'.log, LAMBDA e : e.op = "exec")).text[1]

ExecResult ==
    IF pc' = "tools" THEN LastOf(turn'.results)
    ELSE LastOf(LastOf(contexts'[CurUser]).content)

\* C17: every dispatch yields a result block, whatever the name and whatever
\* the handler does: for a name that is not registered an error result with
\* the content "unknown tool: <name>", for a handler that fails an error
\* result with the text of the error, for a handler that succeeds a result
\* that is not an error with the output of the handler.
C17_ExecuteErrorAsData ==
    [][ExecStep =>
         /\ ExecResult.type = "tool_result"
         /\ ExecResult.id = ExecCall.id
         /\ pc' = "tools" => Len(turn'.results) = Len(turn.results) + 1
         /\ pc' # "tools" =>
               Len(LastOf(contexts'[CurUser]).content) = Len(turn.results) + 1
         /\ ExecCall.name \notin Registry =>
               /\ ExecResult.is_error
               /\ ExecResult.text = <<"unknown tool: ", ExecCall.name>>
         /\ (ExecCall.name \in Registry /\ ExecOut = "err") =>
               /\ ExecResult.is_error
               /\ ExecResult.text = HandlerErrText
         /\ (ExecCall.name \in Registry /\ ExecOut # "err") =>
               /\ ~ExecResult.is_error
               /\ ExecResult.text = HandlerOutText]_vars

\* the results of a round hold the error of an unknown tool, and the round's
\* registered tool has failed
C17_Witness ==
    /\ pc = "llm" /\ tr.llmCalls = 1
    /\ LastOf(contexts[tr.user]).role = "user"
    /\ Len(LastOf(contexts[tr.user]).content) = 2
    /\ LastOf(contexts[tr.user]).content[1] =
          [type |-> "tool_result", text |-> <<"unknown tool: ", "nope">>, id |-> "c1",
           name |-> "", is_error |-> TRUE]
    /\ LastOf(contexts[tr.user]).content[2] =
          [type |-> "tool_result", text |-> HandlerErrText, id |-> "c2",
           name |-> "", is_error |-> TRUE]

----------------------------------------------------------------------------
(* The typing keep-alive: the unified loop with a Messenger that is a      *)
(* TypingNotifier, the dispatcher and the typingLoop goroutine of a turn   *)

MaxTyping == 2

\* runLLMTurn: stopTyping = make(chan struct{}); go typingLoop(ctx, notifier, chatID, stopTyping)
TypingSpawn(chat) == [NoTyping EXCEPT !.pc = "start", !.chat = chat, !.open = TRUE]

\* (variant: the channel is closed without the test for nil)
StopTypingAlways(t) == [t EXCEPT !.stop = TRUE, !.open = FALSE, !.closes = @ + 1]

\* stopTypingOnce: if stopTyping != nil { close(stopTyping); stopTyping = nil }
StopTypingOnce(t) ==
    IF t.open THEN [t EXCEPT !.stop = TRUE, !.open = FALSE, !.closes = @ + 1] ELSE t

\* runLLMTurn from a branch that ends the turn: stopTypingOnce(), the final
\* Send of the turn, break, and the stopTypingOnce() behind the loop
StopAndSend(t) == StopTypingOnce([StopTypingOnce(t) EXCEPT !.sent = TRUE])

\* handleTelegramUpdate up to the first call of the model, with the spawn
TypingHandleUpdate ==
    /\ updCh # <<>>
    /\ UnifiedHandleUpdate(HookOk(EmptyStr), HookOk(EmptyStr))
    /\ typing' = IF pc' = "llm" THEN TypingSpawn(Head(updCh).chat) ELSE typing
    /\ UNCHANGED <<npub, sideVars>>

\* one iteration of runLLMTurn; the branches that end the turn close the stop
\* channel and then send
TypingLLMCall(resp) ==
    /\ LLMCall(resp)
    /\ typing' = IF resp.type = "tool_use" THEN typing ELSE StopAndSend(typing)
    /\ UNCHANGED <<npub, sideVars>>

\* typingLoop: the immediate first SendTyping
TypingFirst ==
    /\ typing.pc = "start"
    /\ typing' = [typing EXCEPT !.pc = "wait", !.n = @ + 1, !.late = typing.sent]
    /\ last' = NoLast
    /\ UNCHANGED <<opts, busVars, now, loopVars, pollVars, cancelled, hist, npub,
                   sideVars>>

\* typingLoop: case <-ticker.C: SendTyping. When the stop channel is closed by
\* the time the ticker has fired both cases are ready and either is taken.
TypingTick ==
    /\ typing.pc = "wait"
    /\ typing.n < MaxTyping
    /\ typing' = [typing EXCEPT !.n = @ + 1, !.late = @ \/ typing.sent]
    /\ last' = NoLast
    /\ UNCHANGED <<opts, busVars, now, loopVars, pollVars, cancelled, hist, npub,
                   sideVars>>

\* typingLoop: case <-stop, case <-ctx.Done(): return
TypingReturn ==
    /\ typing.pc = "wait"
    /\ typing.stop \/ cancelled
    /\ typing' = [typing EXCEPT !.pc = "done"]
    /\ last' = NoLast
    /\ UNCHANGED <<opts, busVars, now, loopVars, pollVars, cancelled, hist, npub,
                   sideVars>>

TypingResponses ==
    {r \in Responses : r.type # "tool_use" \/ r.calls = <<Call("c1", "echo", 0)>>}

InitTyping == InitWith(TurnConfig)

\* the dispatcher takes the next update when the goroutine of the turn before
\* has returned
NextTyping ==
    \/ (Startup(TRUE) /\ UNCHANGED auxVars)
    \/ (Cancel /\ UNCHANGED auxVars)
    \/ (updCh = <<>> /\ batch = <<>> /\ UNCHANGED auxVars /\
           \E b \in PollResults(offset, {TextHello}) : PollerPoll(b))
    \/ (PollerForward /\ UNCHANGED auxVars)
    \/ (PollerAbort /\ UNCHANGED auxVars)
    \/ (pc = "idle" /\ typing.pc \in {"none", "done"} /\ updCh # <<>> /\
           CtxRoom(Head(updCh).user) /\ TypingHandleUpdate)
    \/ (pc = "llm" /\ \E resp \in TypingResponses : RespRoom(resp) /\ TypingLLMCall(resp))
    \/ (pc = "tools" /\ UNCHANGED auxVars /\
           \E out \in {"err", "ok"} : ToolExec(out, "e1", TRUE))
    \/ TypingFirst
    \/ TypingTick
    \/ TypingReturn

SpecTyping == InitTyping /\ [][NextTyping]_vars

\* C18: no SendTyping for the chat of a turn is issued after the final Send of
\* the turn has returned, however the dispatcher and the keep-alive goroutine
\* interleave.
C18_NoTypingAfterSend == ~typing.late

----------------------------------------------------------------------------
(* Per-user contexts                                                       *)

\* the user whose update or event the step handles
HandledUser ==
    IF pc = "idle"
    THEN (IF cur'.src = "update" THEN cur'.upd.user ELSE cur'.ev.target)
    ELSE CurUser

\* the step is the dispatch of a send_user_message call that delivered to v
InjectStep(v) ==
    /\ ExecStep
    /\ ExecCall.name = "send_user_message"
    /\ ExecCall.arg = v
    /\ ExecOut \in {"sent", "relay"}

----------------------------------------------------------------------------
(* ContextManager.Prepare with the default hooks                           *)

MaxCeiling == 2

\* NewContextManager: if maxMessages <= 0 { maxMessages = 40 }
NewContextManager(maxMessages) == IF maxMessages <= 0 THEN 40 ELSE maxMessages

\* the default TransformContext: msgs[len(msgs)-c.MaxMessages:]
TransformContext(msgs, n) ==
    IF Len(msgs) <= n THEN msgs ELSE SubSeq(msgs, Len(msgs) - n + 1, Len(msgs))

\* the default ConvertToLLM
ConvertToLLM(msgs) == msgs

Prepare(msgs, n) == ConvertToLLM(TransformContext(msgs, n))

\* the ceilings a ContextManager is made with
Ceilings == {NewContextManager(n) : n \in 0..MaxCeiling}

\* every tool_result block of message i of the view has its call, by id, in
\* message i - 1 of the view, an assistant message
PairKept(view, i) ==
    \A k \in DOMAIN view[i].content :
        view[i].content[k].type = "tool_result" =>
            /\ i > 1
            /\ view[i - 1].role = "assistant"
            /\ \E j \in DOMAIN view[i - 1].content :
                  /\ view[i - 1].content[j].type = "tool_use"
                  /\ view[i - 1].content[j].id = view[i].content[k].id

\* C20: for every context the turns build and every ceiling, the view that
\* Prepare returns with the default keep-last-N transform breaks no pair: each
\* tool_result block of the view has its tool_use block in the assistant
\* message just before it in the view.
C20_PrepareKeepsPairs ==
    \A u \in Users : \A n \in Ceilings :
        LET view == Prepare(contexts[u], n)
        IN \A i \in DOMAIN view : PairKept(view, i)

----------------------------------------------------------------------------
(* The reminder producer: startReminderProducer and fireReminders, on the  *)
(* in-memory bus, with the dispatcher as the consumer                      *)

MaxRemPubs == 2

\* what the agent, the bus and the poller hold, but for the history of the
\* last bus operation
coreVars == <<opts, now, loopVars, pollVars, cancelled, hist>>

\* generateUUID: the k-th id made for row r
GenerateUUID(r, k) ==
    <<<<"r1a", "r1b", "r1c", "r1d">>, <<"r2a", "r2b", "r2c", "r2d">>>>[r][k]

ReminderEvent(row, eid) ==
    [kind |-> "reminder", target |-> row.chat, chat |-> row.chat, content |-> DueText,
     source |-> <<"reminder">>, event_id |-> eid]

\* SELECT id ... WHERE fire_at <= now() AND fired_at IS NULL ORDER BY fire_at
DueReminders(rows, t) ==
    LET D == {r \in DOMAIN rows : rows[r].fire_at <= t /\ ~rows[r].fired}
        n == Cardinality(D)
    IN CHOOSE p \in [1..n -> D] :
           /\ \A a, b \in 1..n : a # b => p[a] # p[b]
           /\ \A a, b \in 1..n : a < b => rows[p[a]].fire_at <= rows[p[b]].fire_at

\* startReminderProducer: the goroutine starts and fires once at once
StartReminderProducer ==
    /\ rem.pc = "off"
    /\ pc # "boot"
    /\ rem' = [rem EXCEPT !.pc = "fire"]
    /\ last' = NoLast
    /\ UNCHANGED <<coreVars, busVars>>

\* case <-ticker.C
ReminderTicker ==
    /\ rem.pc = "wait"
    /\ rem' = [rem EXCEPT !.pc = "fire"]
    /\ last' = NoLast
    /\ UNCHANGED <<coreVars, busVars>>

\* case <-ctx.Done()
ReminderStop ==
    /\ rem.pc = "wait"
    /\ cancelled
    /\ rem' = [rem EXCEPT !.pc = "stopped"]
    /\ last' = NoLast
    /\ UNCHANGED <<coreVars, busVars>>

\* fireReminders: the query and the scan of its rows
ReminderQuery(ok) ==
    /\ rem.pc = "fire"
    /\ LET due == DueReminders(rem.rows, now)
       IN rem' = IF ~ok THEN [rem EXCEPT !.pc = "wait", !.err = "query"]
                 ELSE [rem EXCEPT !.pc = IF due = <<>> THEN "wait" ELSE "pub",
                                  !.due = due, !.err = ""]
    /\ last' = NoLast
    /\ UNCHANGED <<coreVars, busVars>>

\* fireReminders, loop body: bus.Publish of the event of the row
ReminderPublish ==
    /\ rem.pc = "pub"
    /\ LET r == Head(rem.due)
           ev == ReminderEvent(rem.rows[r], GenerateUUID(r, Len(rem.rows[r].ids) + 1))
           res == BusPublish(opts.bus, store, ch, ev, now, TRUE)
       IN /\ store' = res.store
          /\ ch' = res.ch
          /\ last' = [op |-> "publish", ev |-> ev, err |-> res.err, replayed |-> <<>>]
          /\ rem' = [rem EXCEPT !.pc = "mark",
                                !.rows[r].ids = Append(@, ev.event_id)]
    /\ UNCHANGED coreVars

\* fireReminders, loop body: UPDATE reminders SET fired_at = now() WHERE id = $1;
\* a failure is logged and the loop goes on
ReminderMark(ok) ==
    /\ rem.pc = "mark"
    /\ LET r == Head(rem.due)
           rest == Tail(rem.due)
       IN rem' = [rem EXCEPT !.pc = IF rest = <<>> THEN "wait" ELSE "pub",
                             !.due = rest,
                             !.err = IF ok THEN "" ELSE "mark",
                             !.rows[r].fired = IF ok THEN TRUE ELSE @]
    /\ last' = NoLast
    /\ UNCHANGED <<coreVars, busVars>>

\* the dispatcher receives an event from the bus and handles it
ReminderDeliver ==
    /\ ch # <<>>
    /\ UnifiedHandleEvent
    /\ rem' = [rem EXCEPT !.delivered = @ \cup {Head(ch).event_id}]

\* the rows of the next publish have been published less than MaxRemPubs times
RemRoom == Len(rem.rows[Head(rem.due)].ids) < MaxRemPubs

InitReminder == InitWith(MemConfig)

\* The producer starts on an empty bus, or after the burst of the numbering
\* producer has filled it.
NextReminder ==
    \/ (Startup(TRUE) /\ UNCHANGED auxVars)
    \/ (rem.pc = "off" /\ PublishNumbered)
    \/ (Tick /\ UNCHANGED auxVars)
    \/ (Cancel /\ UNCHANGED auxVars)
    \/ (npub \in {0, MaxPub} /\ StartReminderProducer /\ UNCHANGED notRem)
    \/ (~cancelled /\ ReminderTicker /\ UNCHANGED notRem)
    \/ (ReminderStop /\ UNCHANGED notRem)
    \/ (\E ok \in BOOLEAN : ReminderQuery(ok) /\ UNCHANGED notRem)
    \/ (rem.pc = "pub" /\ RemRoom /\ ReminderPublish /\ UNCHANGED notRem)
    \/ (\E ok \in BOOLEAN : ReminderMark(ok) /\ UNCHANGED notRem)
    \/ (ch # <<>> /\ CtxRoom(Head(ch).target) /\ ReminderDeliver /\
           UNCHANGED notRem)
    \/ (pc = "llm" /\ LLMCall(Resp("text", OkText, <<>>, Usage(3, 2))) /\
           UNCHANGED auxVars)

SpecReminder == InitReminder /\ [][NextReminder]_vars

\* the events published for row r
RemPubs(r) == Len(rem.rows[r].ids)

\* C21: over the ticks of the reminder producer, the ticks in which the update
\* of fired_at fails included, no row has more than one event published for it.
C21_PublishedOnce == \A r \in ReminderRows : RemPubs(r) <= 1

\* C22: for every row with fired_at set an event was published before, and the
\* bus has not lost it: an event of the row is in the queue of the bus or has
\* been received by the dispatcher, whatever the queue held at the publish.
C22_FiredIsDelivered ==
    \A r \in ReminderRows :
        rem.rows[r].fired =>
            /\ RemPubs(r) >= 1
            /\ \E k \in 1..RemPubs(r) :
                  \/ rem.rows[r].ids[k] \in rem.delivered
                  \/ \E i \in DOMAIN ch : ch[i].event_id = rem.rows[r].ids[k]

----------------------------------------------------------------------------
(* The heartbeat producer: startHeartbeatProducer reads HEARTBEAT_TIME and *)
(* HEARTBEAT_INTERVAL_MINUTES and starts the goroutine of one mode         *)

Digits == <<"0", "1", "2", "3", "4", "5", "6", "7", "8", "9">>

IsDigit(c) == \E d \in DOMAIN Digits : Digits[d] = c

DigitVal(c) == (CHOOSE d \in DOMAIN Digits : Digits[d] = c) - 1

RECURSIVE DecimalVal(_)
DecimalVal(s) ==
    IF s = <<>> THEN 0
    ELSE 10 * DecimalVal(SubSeq(s, 1, Len(s) - 1)) + DigitVal(s[Len(s)])

\* strconv.Atoi: an optional sign and one or more decimal digits
Atoi(s) ==
    LET signed == s # <<>> /\ s[1] \in {"+", "-"}
        digits == IF signed THEN Tail(s) ELSE s
    IN IF digits = <<>> \/ \E i \in DOMAIN digits : ~IsDigit(digits[i])
       THEN [err |-> TRUE, val |-> 0]
       ELSE [err |-> FALSE,
             val |-> IF signed /\ s[1] = "-" THEN 0 - DecimalVal(digits)
                     ELSE DecimalVal(digits)]

\* strings.SplitN(s, ":", 2)
SplitColon2(s) ==
    IF \E i \in DOMAIN s : s[i] = ":"
    THEN LET i == CHOOSE k \in DOMAIN s : s[k] = ":" /\ \A j \in 1..(k - 1) : s[j] # ":"
         IN <<SubSeq(s, 1, i - 1), SubSeq(s, i + 1, Len(s))>>
    ELSE <<s>>

\* envOr
envOr(v, def) == IF v # <<>> THEN v ELSE def

DailyTask(hour, min) ==
    [mode |-> "daily", hour |-> hour, min |-> min, minutes |-> 0, pc |-> "wait",
     fired |-> 0]

IntervalTask(minutes) ==
    [mode |-> "interval", hour |-> 0, min |-> 0, minutes |-> minutes, pc |-> "wait",
     fired |-> 0]

\* the interval mode of startHeartbeatProducer
IntervalMode(intervalEnv) ==
    LET m == Atoi(envOr(intervalEnv, <<"6", "0">>))
    IN IF m.err \/ m.val <= 0 THEN <<>> ELSE <<IntervalTask(m.val)>>

\* (variant: the daily mode does not return after it has started its goroutine)
HeartbeatTasksFallThrough(timeEnv, intervalEnv) ==
    LET timeStr == envOr(timeEnv, <<>>)
        parts == SplitColon2(timeStr)
    IN IF timeStr # <<>> /\ Len(parts) = 2
          /\ ~Atoi(parts[1]).err /\ ~Atoi(parts[2]).err
          /\ Atoi(parts[1]).val \in 0..23 /\ Atoi(parts[2]).val \in 0..59
       THEN <<DailyTask(Atoi(parts[1]).val, Atoi(parts[2]).val)>>
                \o IntervalMode(intervalEnv)
       ELSE IF timeStr # <<>> THEN <<>> ELSE IntervalMode(intervalEnv)

\* startHeartbeatProducer: the goroutines it starts, in the order of the code
HeartbeatTasks(timeEnv, intervalEnv) ==
    LET timeStr == envOr(timeEnv, <<>>)
        parts == SplitColon2(timeStr)
    IN IF timeStr # <<>>
       THEN IF Len(parts) # 2 THEN <<>>
            ELSE LET h == Atoi(parts[1])
                     m == Atoi(parts[2])
                 IN IF h.err \/ m.err \/ h.val < 0 \/ h.val > 23
                       \/ m.val < 0 \/ m.val > 59
                    THEN <<>>
                    ELSE <<DailyTask(h.val, m.val)>>
       ELSE IntervalMode(intervalEnv)

TimeEnvs ==
    {<<>>, <<"1", "7", ":", "0", "0">>, <<"7", ":", "5">>, <<"2", "4", ":", "0", "0">>,
     <<"1", "7", ":", "6", "0">>, <<"1", "7">>, <<"a", ":", "b">>,
     <<"1", "7", ":", "0", "0", ":", "0", "0">>, <<"-", "1", ":", "0", "0">>, <<":">>}

IntervalEnvs ==
    {<<>>, <<"6", "0">>, <<"0">>, <<"-", "5">>, <<"x">>, <<"1">>}

StartHeartbeatProducer(timeEnv, intervalEnv) ==
    /\ hb.pc = "off"
    /\ pc # "boot"
    /\ hb' = [pc |-> "returned", time |-> timeEnv, interval |-> intervalEnv,
              tasks |-> HeartbeatTasks(timeEnv, intervalEnv)]
    /\ last' = NoLast
    /\ UNCHANGED <<coreVars, busVars>>

\* a goroutine of the producer: case <-time.After(delay) or case <-ticker.C,
\* then publish()
HeartbeatFire(i) ==
    /\ i \in DOMAIN hb.tasks
    /\ hb.tasks[i].pc = "wait"
    /\ Publish(Heartbeat(1), TRUE)
    /\ hb' = [hb EXCEPT !.tasks[i].fired = @ + 1]

\* a goroutine of the producer: case <-ctx.Done()
HeartbeatStop(i) ==
    /\ i \in DOMAIN hb.tasks
    /\ hb.tasks[i].pc = "wait"
    /\ cancelled
    /\ hb' = [hb EXCEPT !.tasks[i].pc = "stopped"]
    /\ last' = NoLast
    /\ UNCHANGED <<coreVars, busVars>>

InitHeartbeat == InitWith(MemConfig)

NextHeartbeat ==
    \/ (Startup(TRUE) /\ UNCHANGED auxVars)
    \/ (Cancel /\ UNCHANGED auxVars)
    \/ (\E t \in TimeEnvs, m \in IntervalEnvs :
           StartHeartbeatProducer(t, m) /\ UNCHANGED notHb)
    \/ (QueueRoom /\ UNCHANGED notHb /\
           \E i \in DOMAIN hb.tasks : HeartbeatFire(i))
    \/ (\E i \in DOMAIN hb.tasks : HeartbeatStop(i) /\ UNCHANGED notHb)

SpecHeartbeat == InitHeartbeat /\ [][NextHeartbeat]_vars

\* C23: whatever HEARTBEAT_TIME and HEARTBEAT_INTERVAL_MINUTES hold, at most
\* one producer goroutine is started; a HEARTBEAT_TIME that is not empty never
\* starts the interval mode, valid or not; with no HEARTBEAT_TIME the interval
\* 0 starts none, and an interval that is a positive number starts the
\* interval mode.
C23_AtMostOneHeartbeatMode ==
    hb.pc = "returned" =>
        /\ Len(hb.tasks) <= 1
        /\ hb.time # <<>> => \A i \in DOMAIN hb.tasks : hb.tasks[i].mode = "daily"
        /\ (hb.time = <<>> /\ hb.interval = <<"0">>) => hb.tasks = <<>>
        /\ (hb.time = <<>> /\ hb.interval \in {<<"6", "0">>, <<"1">>, <<>>}) =>
               /\ Len(hb.tasks) = 1
               /\ hb.tasks[1].mode = "interval"
        /\ hb.time = <<"1", "7", ":", "0", "0">> =>
               /\ Len(hb.tasks) = 1
               /\ hb.tasks[1].hour = 17 /\ hb.tasks[1].min = 0

\* both variables are set and valid, the daily goroutine alone runs and has
\* published
C23_Witness ==
    /\ hb.pc = "returned"
    /\ hb.time = <<"1", "7", ":", "0", "0">>
    /\ hb.interval = <<"6", "0">>
    /\ Len(hb.tasks) = 1
    /\ hb.tasks[1].mode = "daily"
    /\ hb.tasks[1].fired > 0

----------------------------------------------------------------------------
(* The user registry: Postgres roles, the users and user_credentials       *)
(* tables, and the cache of per-user pools                                 *)

MaxRegs == 2

PgUser(u) == <<"tg_", u>>

\* the rows of table t with the key k in column col
KeyRows(t, col, k) == {i \in DOMAIN t : t[i][col] = k}

\* (variant: a plain INSERT, with no conflict target)
UpsertNoConflict(t, col, row) == Append(t, row)

\* INSERT ... ON CONFLICT (col) DO UPDATE SET ...
Upsert(t, col, row) ==
    IF KeyRows(t, col, row[col]) = {}
    THEN Append(t, row)
    ELSE [i \in DOMAIN t |-> IF t[i][col] = row[col] THEN row ELSE t[i]]

\* DO $$ BEGIN CREATE ROLE ... EXCEPTION WHEN duplicate_object THEN ALTER ROLE ... END $$
CreateOrAlterRole(roles, name, pw) ==
    Upsert(roles, "name", [name |-> name, password |-> pw])

\* the password of the role of u, 0 when there is none
RolePassword(r, u) ==
    IF KeyRows(r.roles, "name", PgUser(u)) = {} THEN 0
    ELSE r.roles[CHOOSE i \in KeyRows(r.roles, "name", PgUser(u)) : TRUE].password

\* SELECT pg_password FROM user_credentials WHERE telegram_id = $1, 0 for no row
StoredPassword(r, u) ==
    IF KeyRows(r.creds, "telegram_id", u) = {} THEN 0
    ELSE r.creds[CHOOSE i \in KeyRows(r.creds, "telegram_id", u) : TRUE].pg_password

\* SELECT EXISTS(SELECT 1 FROM users WHERE telegram_id=$1)
HasUsersRow(r, u) == KeyRows(r.users, "telegram_id", u) # {}

\* what the database and the cache hold about u
RegState(r, u) ==
    [role |-> RolePassword(r, u), users |-> HasUsersRow(r, u),
     cred |-> StoredPassword(r, u), cached |-> r.pools[u], grants |-> r.grants[u]]

\* the steps of Register at which it may fail and return
RegisterFailures == {"none", "role", "users", "creds"}

\* UserRegistry.Register: a fresh password, the role, the grants (a failing
\* grant is logged), the users row, the credentials row; it returns at the
\* first of its statements that fails
Register(u, isAdmin, failAt, grantsOk) ==
    LET pw == reg.npw + 1
        r0 == [reg EXCEPT !.npw = pw]
        r1 == [r0 EXCEPT !.roles = CreateOrAlterRole(@, PgUser(u), pw)]
        r2 == IF grantsOk THEN [r1 EXCEPT !.grants[u] = @ + 1] ELSE r1
        r3 == [r2 EXCEPT !.users = Upsert(@, "telegram_id",
                                          [telegram_id |-> u, pg_user |-> PgUser(u),
                                           is_admin |-> isAdmin])]
        r4 == [r3 EXCEPT !.creds = Upsert(@, "telegram_id",
                                          [telegram_id |-> u, pg_password |-> pw])]
        end == CASE failAt = "role" -> r0
                 [] failAt = "users" -> r2
                 [] failAt = "creds" -> r3
                 [] OTHER -> r4
    IN /\ reg' = [end EXCEPT !.last = [NoRegLast EXCEPT !.op = "register", !.user = u,
                                                       !.err = (failAt # "none"),
                                                       !.pw = pw,
                                                       !.before = RegState(reg, u)]]
       /\ last' = NoLast
       /\ UNCHANGED <<coreVars, busVars>>

\* UserRegistry.Pool: the cached pool, or a pool opened with the stored
\* credential; openUserPool pings, and the ping is refused when the stored
\* password is not the password of the role
Pool(u, dbOk) ==
    LET cached == reg.pools[u]
        stored == StoredPassword(reg, u)
        err == /\ cached = 0
               /\ \/ ~dbOk
                  \/ ~HasUsersRow(reg, u)
                  \/ stored = 0
                  \/ stored # RolePassword(reg, u)
        pool == IF cached # 0 THEN cached ELSE stored
    IN /\ reg' = [reg EXCEPT !.pools[u] = IF err THEN @ ELSE pool,
                            !.last = [NoRegLast EXCEPT !.op = "pool", !.user = u,
                                                       !.err = err,
                                                       !.pw = IF err THEN 0 ELSE pool,
                                                       !.before = RegState(reg, u)]]
       /\ last' = NoLast
       /\ UNCHANGED <<coreVars, busVars>>

\* UserRegistry.IsRegistered: the error of the query is dropped and exists
\* stays false
IsRegistered(u, dbOk) ==
    /\ reg' = [reg EXCEPT !.last = [NoRegLast EXCEPT !.op = "is_registered", !.user = u,
                                                    !.exists = dbOk /\ HasUsersRow(reg, u),
                                                    !.before = RegState(reg, u)]]
    /\ last' = NoLast
    /\ UNCHANGED <<coreVars, busVars>>

InitRegistry == InitWith(MemConfig)

NextRegistry ==
    \/ (reg.npw < MaxRegs /\ UNCHANGED notReg /\
           \E u \in Users, isAdmin \in BOOLEAN, failAt \in RegisterFailures,
              grantsOk \in BOOLEAN : Register(u, isAdmin, failAt, grantsOk))
    \/ (\E u \in Users, dbOk \in BOOLEAN : Pool(u, dbOk) /\ UNCHANGED notReg)
    \/ (\E u \in Users, dbOk \in BOOLEAN : IsRegistered(u, dbOk) /\ UNCHANGED notReg)

SpecRegistry == InitRegistry /\ [][NextRegistry]_vars

\* C24: after a register(u) that succeeded is_registered(u) is true; a
\* register of a user that had a role rotates the stored credential and
\* issues the grants again; and there is exactly one role, one users row and
\* one credentials row for u. No user ever has two of any of them, and a
\* database that answers finds a user registered that was registered.
C24_RegisterIdempotent ==
    /\ \A u \in Users :
          /\ Cardinality(KeyRows(reg.roles, "name", PgUser(u))) <= 1
          /\ Cardinality(KeyRows(reg.users, "telegram_id", u)) <= 1
          /\ Cardinality(KeyRows(reg.creds, "telegram_id", u)) <= 1
    /\ (reg.last.op = "register" /\ ~reg.last.err) =>
          LET u == reg.last.user
          IN /\ HasUsersRow(reg, u)
             /\ Cardinality(KeyRows(reg.roles, "name", PgUser(u))) = 1
             /\ Cardinality(KeyRows(reg.users, "telegram_id", u)) = 1
             /\ Cardinality(KeyRows(reg.creds, "telegram_id", u)) = 1
             /\ StoredPassword(reg, u) = reg.last.pw
             /\ RolePassword(reg, u) = reg.last.pw
             /\ reg.last.before.role # 0 =>
                   /\ RolePassword(reg, u) # reg.last.before.role
                   /\ StoredPassword(reg, u) # reg.last.before.cred
                   /\ reg.grants[u] >= reg.last.before.grants
    /\ (reg.last.op = "is_registered" /\ reg.last.exists) => HasUsersRow(reg, reg.last.user)

\* the second register of a user has succeeded, with the grants issued twice
C24_Witness ==
    /\ reg.last.op = "register"
    /\ ~reg.last.err
    /\ reg.last.before.role # 0
    /\ reg.last.before.users
    /\ reg.last.before.cred # 0
    /\ reg.grants[reg.last.user] = 2
    /\ Len(reg.users) = 1

\* C25: after a register(u) call, failed or not, either what the database
\* holds about u is what it held before the call, or is_registered(u) is true
\* and the stored credential is the password of the role, so that pool(u)
\* succeeds.
C25_RegisterAtomic ==
    reg.last.op = "register" =>
        LET u == reg.last.user
        IN \/ RegState(reg, u) = reg.last.before
           \/ /\ HasUsersRow(reg, u)
              /\ StoredPassword(reg, u) # 0
              /\ StoredPassword(reg, u) = RolePassword(reg, u)

\* C26: a pool(u) call that succeeds returns a pool opened with the current
\* password of the role of u, also after a register that rotated it.
C26_PoolAfterRotation ==
    (reg.last.op = "pool" /\ ~reg.last.err) =>
        reg.last.pw = RolePassword(reg, reg.last.user)

----------------------------------------------------------------------------
(* Session recording: the Store with one Recorder per user and the JSONL   *)
(* file of each user, which outlives the process                           *)

MaxRecords == 3

\* sessionInitEvent
sessionInitEvent(id, u) == [type |-> "session", id |-> id, parentId |-> 0, userId |-> u]

\* messageEvent
messageEvent(id, parentID) ==
    [type |-> "message", id |-> id, parentId |-> parentID, userId |-> 0]

NoRecorder == [open |-> FALSE, lastID |-> 0]

\* Recorder.Record: the event with the parent r.lastID; a write error is
\* reported on stderr and lastID stays
RecorderRecord(file, r, id, writeOk) ==
    LET e == messageEvent(id, r.lastID)
    IN IF writeOk THEN [file |-> Append(file, e), rec |-> [r EXCEPT !.lastID = e.id]]
       ELSE [file |-> file, rec |-> r]

\* newRecorder: open the file for appending; when it is empty write the
\* session record and take its id as lastID; err when the open or that write
\* fails
newRecorder(file, id, u, openOk, writeOk) ==
    IF ~openOk THEN [file |-> file, rec |-> NoRecorder, err |-> TRUE]
    ELSE IF Len(file) = 0
         THEN IF writeOk
              THEN [file |-> <<sessionInitEvent(id, u)>>,
                    rec |-> [open |-> TRUE, lastID |-> id], err |-> FALSE]
              ELSE [file |-> file, rec |-> NoRecorder, err |-> TRUE]
         ELSE [file |-> file, rec |-> [open |-> TRUE, lastID |-> 0], err |-> FALSE]

\* Store.Record: recorderFor (the cached recorder or a new one), then
\* Recorder.Record. newID gives ids that are in no file yet.
StoreRecord(u, openOk, initOk, writeOk) ==
    LET opened == sess.recorders[u].open
        nr == newRecorder(sess.files[u], sess.nid + 1, u, openOk, initOk)
        wroteInit == ~opened /\ Len(nr.file) > Len(sess.files[u])
        n1 == IF wroteInit THEN sess.nid + 1 ELSE sess.nid
        f1 == IF opened THEN sess.files[u] ELSE nr.file
        r1 == IF opened THEN sess.recorders[u] ELSE nr.rec
    IN /\ IF ~opened /\ nr.err
          THEN sess' = [sess EXCEPT !.files[u] = f1, !.nid = n1]
          ELSE LET res == RecorderRecord(f1, r1, n1 + 1, writeOk)
               IN sess' = [sess EXCEPT !.files[u] = res.file,
                                       !.recorders[u] = res.rec,
                                       !.nid = IF writeOk THEN n1 + 1 ELSE n1]
       /\ last' = NoLast
       /\ UNCHANGED <<coreVars, busVars>>

\* Store.Close, and the end of the process: the recorders are gone, the
\* files stay
StoreClose ==
    /\ \E u \in Users : sess.recorders[u].open
    /\ sess' = [sess EXCEPT !.recorders = [u \in Users |-> NoRecorder]]
    /\ last' = NoLast
    /\ UNCHANGED <<coreVars, busVars>>

\* the file of u has room for a session record and a message record
FileRoom(u) == Len(sess.files[u]) + 2 <= MaxRecords + 1

InitSession == InitWith(MemConfig)

NextSession ==
    \/ (UNCHANGED notSess /\
           \E u \in Users, openOk \in BOOLEAN, initOk \in BOOLEAN, writeOk \in BOOLEAN :
               FileRoom(u) /\ StoreRecord(u, openOk, initOk, writeOk))
    \/ (StoreClose /\ UNCHANGED notSess)

SpecSession == InitSession /\ [][NextSession]_vars

\* C27: in the session file of every user the first record is the session
\* record and every message record has as parent_id the id of the record
\* just before it in the file, over opens, re-opens of a file that is not
\* empty, writes and failed writes.
C27_LinearChain ==
    \A u \in Users :
        LET f == sess.files[u]
        IN \A i \in DOMAIN f :
               IF i = 1 THEN f[i].type = "session"
               ELSE f[i].type = "message" /\ f[i].parentId = f[i - 1].id

----------------------------------------------------------------------------
(* The retry wrapper of the providers: doWithRetry                         *)

MaxRetryCfg == 2

DefaultMaxRetries == 3

Outcomes ==
    {HttpStatus(200), HttpStatus(404), HttpStatus(429), HttpStatus(500), HttpStatus(599),
     HttpStatus(600),
     RequestError(<<"i/o", "timeout">>, TRUE),
     RequestError(<<"read:", "connection", "reset", "by", "peer">>, FALSE),
     RequestError(<<"unexpected", "eof">>, FALSE)}

CtxErr == RequestError(<<"context", "canceled">>, FALSE)

\* strings.Contains on the words of a message
Contains(msg, phrase) ==
    \E i \in 0..(Len(msg) - Len(phrase)) : SubSeq(msg, i + 1, i + Len(phrase)) = phrase

\* (variant: every error status is retried)
shouldRetryStatusAnyError(status) == status >= 400

\* shouldRetryStatus
shouldRetryStatus(status) == status = 429 \/ (status >= 500 /\ status <= 599)

\* shouldRetryError
shouldRetryError(e) ==
    \/ e.netTimeout
    \/ Contains(e.msg, <<"connection", "reset">>)
    \/ Contains(e.msg, <<"connection", "refused">>)
    \/ Contains(e.msg, <<"timeout">>)
    \/ Contains(e.msg, <<"temporary">>)

\* doWithRetry, up to the loop: a MaxRetries that is not positive is replaced
\* by the default
RetryStart(maxRetries) ==
    /\ rt.pc = "idle"
    /\ rt' = [NoRetry EXCEPT !.pc = "loop", !.cfg = maxRetries,
                             !.max = IF maxRetries <= 0 THEN DefaultMaxRetries
                                     ELSE maxRetries]
    /\ last' = NoLast
    /\ UNCHANGED <<coreVars, busVars>>

\* one iteration of the loop up to its return or its sleep: ctx.Err(), the
\* request, and the test of its outcome
RetryAttempt(o) ==
    /\ rt.pc = "loop"
    /\ IF cancelled
       THEN rt' = [rt EXCEPT !.pc = "done", !.result = CtxErr]
       ELSE LET retry == IF o.status # 0 THEN shouldRetryStatus(o.status)
                         ELSE shouldRetryError(o)
            IN rt' = IF ~retry \/ rt.attempt = rt.max
                     THEN [rt EXCEPT !.pc = "done", !.outs = Append(@, o), !.result = o]
                     ELSE [rt EXCEPT !.pc = "sleep", !.outs = Append(@, o)]
    /\ last' = NoLast
    /\ UNCHANGED <<coreVars, busVars>>

\* sleepContext: case <-t.C, and the next iteration
RetryWake ==
    /\ rt.pc = "sleep"
    /\ rt' = [rt EXCEPT !.pc = "loop", !.attempt = @ + 1]
    /\ last' = NoLast
    /\ UNCHANGED <<coreVars, busVars>>

\* sleepContext: case <-ctx.Done()
RetryCancelled ==
    /\ rt.pc = "sleep"
    /\ cancelled
    /\ rt' = [rt EXCEPT !.pc = "done", !.result = CtxErr]
    /\ last' = NoLast
    /\ UNCHANGED <<coreVars, busVars>>

InitRetry == InitWith(MemConfig)

NextRetry ==
    \/ (Startup(TRUE) /\ UNCHANGED auxVars)
    \/ (Cancel /\ UNCHANGED auxVars)
    \/ (\E m \in (0 - 1)..MaxRetryCfg : RetryStart(m) /\ UNCHANGED notRt)
    \/ (\E o \in Outcomes : RetryAttempt(o) /\ UNCHANGED notRt)
    \/ (RetryWake /\ UNCHANGED notRt)
    \/ (RetryCancelled /\ UNCHANGED notRt)

SpecRetry == InitRetry /\ [][NextRetry]_vars

\* HTTP 429, HTTP 5xx, or a transient network error
Retryable(o) ==
    \/ o.status = 429
    \/ o.status \in 500..599
    \/ (o.status = 0 /\ (o.netTimeout \/ o.msg[1] = "read:"))

\* C28 as stated: the request is invoked at most MaxRetries + 1 times, for
\* the MaxRetries of the configuration.
C28_AtMostConfiguredAttempts == Len(rt.outs) <= rt.cfg + 1

\* C28: the request is invoked at most M + 1 times, where M is the configured
\* MaxRetries when that is positive and 3 otherwise; it is invoked again only
\* after a retryable outcome; an outcome that is not retryable ends the call
\* and is its result; a 429 followed by a 200 is two invocations and the
\* result 200.
C28_BoundedRetries ==
    /\ Len(rt.outs) <= (IF rt.cfg > 0 THEN rt.cfg ELSE DefaultMaxRetries) + 1
    /\ \A i \in 1..(Len(rt.outs) - 1) : Retryable(rt.outs[i])
    /\ \A i \in DOMAIN rt.outs :
          ~Retryable(rt.outs[i]) =>
              /\ i = Len(rt.outs)
              /\ rt.pc = "done"
              /\ rt.result = rt.outs[i]
    /\ (Len(rt.outs) >= 2 /\ rt.outs[1] = HttpStatus(429) /\ rt.outs[2] = HttpStatus(200)) =>
          /\ Len(rt.outs) = 2
          /\ rt.pc = "done"
          /\ rt.result = HttpStatus(200)
    /\ rt.pc = "done" =>
          \/ rt.result = CtxErr
          \/ rt.result = rt.outs[Len(rt.outs)]

\* a 429 and then a success: two invocations
C28_Witness ==
    /\ rt.pc = "done"
    /\ rt.outs = <<HttpStatus(429), HttpStatus(200)>>
    /\ rt.result = HttpStatus(200)

----------------------------------------------------------------------------
(* Run and its return value, in both loops, with a cancellation of the     *)
(* root context at any point                                               *)

RunConfigs == {[bus |-> b, handleStart |-> FALSE, authorize |-> FALSE] : b \in {"none", "mem"}}

\* runTelegramOnly: if ctx.Err() != nil { return nil }
RunReturnTelegramOnly ==
    /\ TelegramOnlyReturn
    /\ runRet' = "nil"

\* runUnified: case <-ctx.Done(): return ctx.Err()
RunReturnUnified ==
    /\ UnifiedReturn
    /\ runRet' = "context canceled"

InitRun == \E o \in RunConfigs : InitWith(o)

NextRun ==
    \/ (Startup(TRUE) /\ UNCHANGED auxVars)
    \/ (Cancel /\ UNCHANGED auxVars)
    \/ (opts.bus = "none" /\ pc = "idle" /\ batch = <<>> /\ UNCHANGED auxVars /\
           \E b \in PollResults(offset, {TextHello}) : TelegramOnlyPoll(b))
    \/ (RunReturnTelegramOnly /\ UNCHANGED notRet)
    \/ (pc = "idle" /\ batch # <<>> /\ CtxRoom(Head(batch).user) /\ UNCHANGED auxVars /\
           TelegramOnlyHandle(HookOk(EmptyStr), HookOk(EmptyStr)))
    \/ (opts.bus # "none" /\ updCh = <<>> /\ batch = <<>> /\ UNCHANGED auxVars /\
           \E b \in PollResults(offset, {TextHello}) : PollerPoll(b))
    \/ (PollerForward /\ UNCHANGED auxVars)
    \/ (PollerAbort /\ UNCHANGED auxVars)
    \/ (pc = "idle" /\ updCh # <<>> /\ CtxRoom(Head(updCh).user) /\ UNCHANGED auxVars /\
           UnifiedHandleUpdate(HookOk(EmptyStr), HookOk(EmptyStr)))
    \/ (QueueRoom /\ UNCHANGED auxVars /\
           \E u \in Users : CtxRoom(u) /\ Publish(Heartbeat(u), TRUE))
    \/ (ch # <<>> /\ CtxRoom(Head(ch).target) /\ UnifiedHandleEvent /\ UNCHANGED auxVars)
    \/ (RunReturnUnified /\ UNCHANGED notRet)
    \/ (pc = "llm" /\ UNCHANGED auxVars /\
           \E resp \in AgentResponses : LLMCall(resp))

SpecRun == InitRun /\ [][NextRun]_vars

\* C29: when Run has returned after the cancellation of the root context, it
\* has returned nil, in the messenger-only loop and in the unified loop.
C29_RunReturnsNil == (cancelled /\ pc = "stopped") => runRet = "nil"

----------------------------------------------------------------------------
(* splitAtNewlines: a text for Telegram cut into chunks of at most         *)
(* maxRunes runes. A string is a sequence of bytes, a rune one code point  *)

MaxText == 5
MaxLimit == 3
MaxChunks == 6

Newline == "\n"

\* U+FFFD, the rune that stands for a byte that is not UTF-8
RuneError == "fffd"

\* the bytes of the texts: two ASCII letters and the two bytes of U+00E9
TextBytes == {"a", Newline, "c3", "a9"}

\* []rune(s): c3 a9 is U+00E9 and ef bf bd is U+FFFD; a byte above 0x7f that
\* begins no such sequence is one U+FFFD
RECURSIVE DecodeRunes(_)
DecodeRunes(s) ==
    IF s = <<>> THEN <<>>
    ELSE IF Len(s) >= 2 /\ s[1] = "c3" /\ s[2] = "a9"
    THEN <<"e9">> \o DecodeRunes(SubSeq(s, 3, Len(s)))
    ELSE IF Len(s) >= 3 /\ s[1] = "ef" /\ s[2] = "bf" /\ s[3] = "bd"
    THEN <<RuneError>> \o DecodeRunes(SubSeq(s, 4, Len(s)))
    ELSE IF s[1] \in {"c3", "a9", "ef", "bf", "bd"}
    THEN <<RuneError>> \o DecodeRunes(Tail(s))
    ELSE <<s[1]>> \o DecodeRunes(Tail(s))

\* string(runes)
RECURSIVE EncodeRunes(_)
EncodeRunes(r) ==
    IF r = <<>> THEN <<>>
    ELSE (CASE r[1] = "e9" -> <<"c3", "a9">>
            [] r[1] = RuneError -> <<"ef", "bf", "bd">>
            [] OTHER -> <<r[1]>>) \o EncodeRunes(Tail(r))

\* utf8.ValidString
ValidString(s) == EncodeRunes(DecodeRunes(s)) = s

\* runes[from:to]
RuneSlice(runes, from, to) == SubSeq(runes, from + 1, to)

\* (variant: the search runs forward and stops at the first newline)
FirstNewline(runes, start, end) ==
    LET at == {i \in start..(end - 1) : runes[i + 1] = Newline}
    IN IF at = {} THEN -1 ELSE CHOOSE i \in at : \A j \in at : j >= i

\* for i := end - 1; i >= start; i--: the index of the last newline within
\* [start, end), or -1
LastNewline(runes, start, end) ==
    LET at == {i \in start..(end - 1) : runes[i + 1] = Newline}
    IN IF at = {} THEN -1 ELSE CHOOSE i \in at : \A j \in at : j <= i

\* splitAtNewlines up to its loop: a text of at most maxRunes runes is
\* returned as it is
SplitStart(text, maxRunes) ==
    /\ sp.pc = "off"
    /\ LET runes == DecodeRunes(text)
       IN sp' = IF Len(runes) <= maxRunes
                THEN [pc |-> "done", text |-> text, max |-> maxRunes, runes |-> runes,
                      start |-> 0, chunks |-> <<text>>]
                ELSE [pc |-> "loop", text |-> text, max |-> maxRunes, runes |-> runes,
                      start |-> 0, chunks |-> <<>>]
    /\ last' = NoLast
    /\ UNCHANGED <<coreVars, busVars>>

\* one pass of for start < len(runes); a slice whose end is below its start
\* panics
SplitLoop ==
    /\ sp.pc = "loop"
    /\ Len(sp.chunks) < MaxChunks
    /\ LET runes == sp.runes
           start == sp.start
           end == start + sp.max
           splitAt == LastNewline(runes, start, end)
       IN sp' = IF start >= Len(runes) THEN [sp EXCEPT !.pc = "done"]
                ELSE IF end >= Len(runes)
                THEN [sp EXCEPT !.pc = "done",
                                !.chunks = Append(@, EncodeRunes(RuneSlice(runes, start,
                                                                           Len(runes))))]
                ELSE IF splitAt < 0
                THEN IF end < start THEN [sp EXCEPT !.pc = "panic"]
                     ELSE [sp EXCEPT !.chunks = Append(@, EncodeRunes(RuneSlice(runes, start,
                                                                                end))),
                                     !.start = end]
                ELSE [sp EXCEPT !.chunks = Append(@, EncodeRunes(RuneSlice(runes, start,
                                                                           splitAt + 1))),
                                !.start = splitAt + 1]
    /\ last' = NoLast
    /\ UNCHANGED <<coreVars, busVars>>

SplitTexts == UNION {[1..n -> TextBytes] : n \in 0..MaxText}

Limits == (-1)..MaxLimit

InitSplit == InitWith(MemConfig)

NextSplit ==
    \/ (sp.pc = "off" /\ UNCHANGED notSp /\
           \E text \in SplitTexts, maxRunes \in Limits : SplitStart(text, maxRunes))
    \/ (SplitLoop /\ UNCHANGED notSp)

SpecSplit == InitSplit /\ [][NextSplit]_vars

\* strings.Join(chunks, "")
RECURSIVE JoinChunks(_)
JoinChunks(chunks) ==
    IF chunks = <<>> THEN <<>> ELSE chunks[1] \o JoinChunks(Tail(chunks))

\* len([]rune(chunk))
RuneCount(s) == Len(DecodeRunes(s))

\* the number of runes of the chunks before chunk i
RECURSIVE RunesBefore(_, _)
RunesBefore(chunks, i) ==
    IF i <= 1 THEN 0 ELSE RunesBefore(chunks, i - 1) + RuneCount(chunks[i - 1])

\* chunk i ends right after the last newline of its window, when the window
\* holds one
EndsAfterLastNewline(i) ==
    LET start == RunesBefore(sp.chunks, i)
        end == IF start + sp.max < Len(sp.runes) THEN start + sp.max ELSE Len(sp.runes)
        window == RuneSlice(sp.runes, start, end)
        chunk == DecodeRunes(sp.chunks[i])
    IN (\E k \in DOMAIN window : window[k] = Newline) =>
           /\ chunk # <<>>
           /\ chunk[Len(chunk)] = Newline
           /\ \A k \in (Len(chunk) + 1)..Len(window) : window[k] # Newline

\* the text that is left at chunk i is longer than the limit
MoreThanWindow(i) == RunesBefore(sp.chunks, i) + sp.max < Len(sp.runes)

----------------------------------------------------------------------------
(* The dispatcher of runUnified with the persistent bus: updates and bus   *)
(* events wait side by side and are handled one at a time                  *)

DispatchConfig == [bus |-> "persistent", handleStart |-> FALSE, authorize |-> FALSE]

InitDispatch == InitWith(DispatchConfig)

NextDispatch ==
    \/ (Startup(TRUE) /\ UNCHANGED auxVars)
    \/ (QueueRoom /\ UNCHANGED auxVars /\ \E ev \in BusEvents : Publish(ev, TRUE))
    \/ (batch = <<>> /\ Len(updCh) < MaxBatch /\ UNCHANGED auxVars /\
           \E b \in PollResults(offset, {TextHello}) : Len(b) = 1 /\ PollerPoll(b))
    \/ (PollerForward /\ UNCHANGED auxVars)
    \/ (updCh # <<>> /\ CtxRoom(Head(updCh).user) /\ UNCHANGED auxVars /\
           UnifiedHandleUpdate(HookOk(EmptyStr), HookOk(EmptyStr)))
    \/ (ch # <<>> /\ CtxRoom(Head(ch).target) /\ UnifiedHandleEvent /\ UNCHANGED auxVars)
    \/ (pc = "llm" /\ UNCHANGED auxVars /\ \E resp \in BusResponses : LLMCall(resp))
    \/ (MarkProcessed(TRUE) /\ UNCHANGED auxVars)

SpecDispatch == InitDispatch /\ [][NextDispatch]_vars

\* the step in which an item leaves the update channel or the bus
DequeueStep ==
    \/ ch # <<>> /\ ch' = Tail(ch)
    \/ updCh # <<>> /\ updCh' = Tail(updCh)

\* the handler of the item taken last has returned, MarkProcessed included
HandlerReturned == pc = "idle" /\ cur = NoCur /\ turn = NoTurn /\ (tr.src # "none" => tr.done)

\* C31: the dispatcher takes the next item, from the update channel or from
\* the bus, only when the handler of the item before has returned (its turn,
\* and MarkProcessed for an event of the persistent bus); and a context or a
\* counter of consecutive events changes only in a step of the handler of the
\* one item in hand.
C31_SequentialDispatch ==
    [][/\ DequeueStep => HandlerReturned
       /\ (contexts' # contexts \/ cnt' # cnt) =>
             \/ DequeueStep /\ HandlerReturned
             \/ cur.src # "none" /\ pc \in {"llm", "tools", "sleep"}]_vars

\* an update is in its turn while another update and an event wait, after an
\* event was handled and marked
C31_Witness ==
    /\ pc = "llm"
    /\ cur.src = "update"
    /\ ch # <<>>
    /\ updCh # <<>>
    /\ \E e \in EventIds : hist[e].marked

----------------------------------------------------------------------------
(* The order of the bus: one producer that numbers its events (the number  *)
(* is the chat id), the dispatcher as the consumer, crashes and replays    *)

MaxOrder == 3

OrderIds == <<"e1", "e2", "e3", "e4">>

OrderedEvent(n) ==
    [kind |-> "reminder", target |-> 1, chat |-> n, content |-> DueText,
     source |-> <<"reminder">>, event_id |-> OrderIds[n]]

\* the producer publishes its next event
OrderPublish(dbOk) ==
    /\ npub < MaxOrder
    /\ Publish(OrderedEvent(npub + 1), dbOk)
    /\ npub' = npub + 1
    /\ UNCHANGED <<typing, sideVars>>

\* a start of the process: what the producer published before it belongs to
\* the runs before
OrderStartup(dbOk) ==
    /\ Startup(dbOk)
    /\ ord' = [base |-> npub, recv |-> <<>>]

\* the consumer receives from Subscribe()
OrderReceive ==
    /\ ch # <<>>
    /\ UnifiedHandleEvent
    /\ ord' = [ord EXCEPT !.recv = Append(@, Head(ch).chat)]

InitOrder == InitWith(BusConfig)

NextOrder ==
    \/ (Tick /\ UNCHANGED auxVars)
    \/ (UNCHANGED notOrd /\ \E dbOk \in BOOLEAN : OrderStartup(dbOk))
    \/ (Restart /\ UNCHANGED auxVars)
    \/ (QueueRoom /\ \E dbOk \in BOOLEAN : OrderPublish(dbOk))
    \/ (ch # <<>> /\ CtxRoom(Head(ch).target) /\ OrderReceive /\ UNCHANGED notOrd)
    \/ (pc = "llm" /\ UNCHANGED auxVars /\
           LLMCall(Resp("err", EmptyStr, <<>>, NoUsage)))
    \/ (UNCHANGED auxVars /\ \E dbOk \in BOOLEAN : MarkProcessed(dbOk))

SpecOrder == InitOrder /\ [][NextOrder]_vars

----------------------------------------------------------------------------
(* Polling in both loops, with the updates the dispatcher has taken logged *)
(* in the order it took them                                               *)

\* runTelegramOnly: handleTelegramUpdate(ctx, update, &offset), logged
HandleLoggedTelegramOnly(sr, ar) ==
    /\ batch # <<>>
    /\ TelegramOnlyHandle(sr, ar)
    /\ ord' = [ord EXCEPT !.recv = Append(@, Head(batch).id)]

\* runUnified: case update := <-telegramUpdateCh, logged
HandleLoggedUnified(sr, ar) ==
    /\ updCh # <<>>
    /\ UnifiedHandleUpdate(sr, ar)
    /\ ord' = [ord EXCEPT !.recv = Append(@, Head(updCh).id)]

InitPoll == \E o \in AgentConfigs : InitWith(o)

NextPoll ==
    \/ (Startup(TRUE) /\ UNCHANGED auxVars)
    \/ (Cancel /\ UNCHANGED auxVars)
    \/ (opts.bus = "none" /\ pc = "idle" /\ batch = <<>> /\ UNCHANGED auxVars /\
           \E b \in PollResults(offset, Texts) : TelegramOnlyPoll(b))
    \/ (TelegramOnlyReturn /\ UNCHANGED auxVars)
    \/ (pc = "idle" /\ batch # <<>> /\ CtxRoom(Head(batch).user) /\ UNCHANGED notOrd /\
           \E sr \in StartResults, ar \in AuthResults : HandleLoggedTelegramOnly(sr, ar))
    \/ (opts.bus # "none" /\ batch = <<>> /\ Len(updCh) < MaxBatch /\ UNCHANGED auxVars /\
           \E b \in PollResults(offset, Texts) : PollerPoll(b))
    \/ (PollerForward /\ UNCHANGED auxVars)
    \/ (PollerAbort /\ UNCHANGED auxVars)
    \/ (pc = "idle" /\ updCh # <<>> /\ CtxRoom(Head(updCh).user) /\ UNCHANGED notOrd /\
           \E sr \in StartResults, ar \in AuthResults : HandleLoggedUnified(sr, ar))
    \/ (UnifiedReturn /\ UNCHANGED auxVars)
    \/ (pc = "llm" /\ UNCHANGED auxVars /\
           \E resp \in AgentResponses : LLMCall(resp))

SpecPoll == InitPoll /\ [][NextPoll]_vars

\* the step in which Messenger.Poll returns a batch
PollStep == batch = <<>> /\ batch' # <<>>

\* C33: with a poll that returns updates of ascending ids, none below the
\* offset it is given, the offset never decreases; the offset given to a poll
\* is above the id of every update the dispatcher has taken and of every
\* update that waits for it; and the dispatcher takes the updates by ascending
\* id, none twice.
C33_OffsetMonotonic ==
    [][/\ offset' >= offset
       /\ PollStep =>
             /\ \A i \in DOMAIN ord.recv : ord.recv[i] < offset
             /\ \A i \in DOMAIN updCh : updCh[i].id < offset
             /\ cur.src = "update" => cur.upd.id < offset
       /\ \A i, j \in DOMAIN ord'.recv : i < j => ord'.recv[i] < ord'.recv[j]]_vars

\* the poller of the unified loop has polled again, with a higher offset,
\* while an update of an earlier poll is in its turn
C33_Witness ==
    /\ opts.bus # "none"
    /\ Len(ord.recv) >= 1
    /\ cur.src = "update"
    /\ batch # <<>>
    /\ Head(batch).id > cur.upd.id

----------------------------------------------------------------------------
(* The stop channel of the typing keep-alive, with a goroutine that is     *)
(* scheduled: typingLoop takes a case of its select that is ready          *)

SpecTypingFair == SpecTyping /\ WF_vars(TypingFirst) /\ WF_vars(TypingReturn)

\* the stop channel of the turn is open while the turn runs and was closed
\* once when the turn has returned
StopHandleOk ==
    /\ typing.closes <= 1
    /\ typing.stop <=> typing.closes = 1
    /\ typing.open => typing.closes = 0
    /\ (pc \in {"llm", "tools"} /\ cur.src = "update") => typing.open
    /\ (pc = "idle" /\ typing.pc # "none") => typing.closes = 1 /\ ~typing.open
    /\ typing.pc = "done" => typing.stop \/ cancelled

\* C34: the stop channel of a turn is closed once on every way out of the
\* turn (a text, tool rounds and then a text, an error of the model, a
\* response of an unknown type): it is never closed twice, it is not open
\* when the turn has returned, and once it is closed the keep-alive goroutine
\* returns.
C34_StopClosedOnce == []StopHandleOk /\ (typing.stop ~> typing.pc = "done")

\* a turn with a tool round has ended with a text, its stop channel closed
\* once, and the goroutine has returned after a tick
C34_Witness ==
    /\ pc = "idle"
    /\ tr.done
    /\ tr.llmCalls = 2
    /\ typing.closes = 1
    /\ typing.pc = "done"
    /\ typing.n = 2

----------------------------------------------------------------------------
(* UserRegistry.Pool called from several goroutines: the cache of pools    *)
(* under its mutex, the lookups and the open outside of it                 *)

MaxOpened == 3

PoolCallers == {1, 2}

\* Pool: r.mu.Lock(); if p, ok := r.pools[telegramID]; ok { return p, nil };
\* r.mu.Unlock()
PoolCheck(c, u) ==
    /\ pl.calls[c].pc = "idle"
    /\ pl' = IF pl.cache[u] # 0
             THEN [pl EXCEPT !.calls[c] = [pc |-> "returned", user |-> u,
                                           pool |-> pl.cache[u], err |-> FALSE],
                             !.got[u] = @ \cup {pl.cache[u]}]
             ELSE [pl EXCEPT !.calls[c] = [pc |-> "lookup", user |-> u, pool |-> 0,
                                           err |-> FALSE]]
    /\ last' = NoLast
    /\ UNCHANGED <<coreVars, busVars>>

\* Pool: the two QueryRow of the admin pool; an error returns
PoolLookup(c, found) ==
    /\ pl.calls[c].pc = "lookup"
    /\ pl' = IF found THEN [pl EXCEPT !.calls[c].pc = "open"]
             ELSE [pl EXCEPT !.calls[c].pc = "returned", !.calls[c].err = TRUE]
    /\ last' = NoLast
    /\ UNCHANGED <<coreVars, busVars>>

\* Pool: r.openUserPool; a pool whose ping fails is closed and an error returned
PoolOpen(c, pingOk) ==
    /\ pl.calls[c].pc = "open"
    /\ pl' = IF pingOk
             THEN [pl EXCEPT !.calls[c].pc = "store",
                             !.calls[c].pool = Len(pl.opened) + 1,
                             !.opened = Append(@, pl.calls[c].user)]
             ELSE [pl EXCEPT !.calls[c].pc = "returned", !.calls[c].err = TRUE]
    /\ last' = NoLast
    /\ UNCHANGED <<coreVars, busVars>>

\* Pool: r.mu.Lock(); r.pools[telegramID] = pool; r.mu.Unlock(); return pool, nil
PoolStore(c) ==
    /\ pl.calls[c].pc = "store"
    /\ LET u == pl.calls[c].user
       IN pl' = [pl EXCEPT !.calls[c].pc = "returned",
                           !.cache[u] = pl.calls[c].pool,
                           !.got[u] = @ \cup {pl.calls[c].pool}]
    /\ last' = NoLast
    /\ UNCHANGED <<coreVars, busVars>>

\* the caller goes on and may call again
PoolCallerNext(c) ==
    /\ pl.calls[c].pc = "returned"
    /\ pl' = [pl EXCEPT !.calls[c] = NoPools.calls[c]]
    /\ last' = NoLast
    /\ UNCHANGED <<coreVars, busVars>>

InitPools == InitWith(MemConfig)

NextPools ==
    \/ (\E c \in PoolCallers, u \in Users : PoolCheck(c, u) /\ UNCHANGED notPl)
    \/ (\E c \in PoolCallers, found \in BOOLEAN : PoolLookup(c, found) /\ UNCHANGED notPl)
    \/ (Len(pl.opened) < MaxOpened /\ UNCHANGED notPl /\
           \E c \in PoolCallers, pingOk \in BOOLEAN : PoolOpen(c, pingOk))
    \/ (\E c \in PoolCallers : PoolStore(c) /\ UNCHANGED notPl)
    \/ (\E c \in PoolCallers : PoolCallerNext(c) /\ UNCHANGED notPl)

SpecPools == InitPools /\ [][NextPools]_vars

\* the pools opened for u
OpenedFor(u) == {i \in DOMAIN pl.opened : pl.opened[i] = u}

\* C35: for every user at most one pool is ever opened, every caller of
\* Pool(u) that succeeds gets that pool, and every pool that was opened is the
\* pool of the cache, or about to be stored there and then stay.
C35_OnePoolPerUser ==
    \A u \in Users :
        /\ Cardinality(OpenedFor(u)) <= 1
        /\ Cardinality(pl.got[u]) <= 1
        /\ \A i \in OpenedFor(u) :
              \/ pl.cache[u] = i
              \/ pl.cache[u] = 0 /\ \E c \in PoolCallers :
                                       pl.calls[c].pc = "store" /\ pl.calls[c].pool = i

----------------------------------------------------------------------------
(* The waits of doWithRetry: retryDelay, parseRetryAfter and sleepContext. *)
(* Durations are in milliseconds, Jitter and the random number in percent  *)

MaxDelayRetries == 2

DefaultBaseDelay == 1000
DefaultMaxDelay == 30000
DefaultJitter == 20

\* a response with a Retry-After header
WithRetryAfter(o, v) == [o EXCEPT !.retryAfter = v]

\* http.ParseTime and time.Until: a header <<"D", s>> stands for an HTTP date
\* s 3 seconds after now ("+") or before now
UntilDate(v) ==
    IF Len(v) = 2 /\ v[1] = "D" THEN (IF v[2] = "+" THEN 3000 ELSE 0 - 3000) ELSE 0

\* parseRetryAfter
parseRetryAfter(v) ==
    IF v = <<>> THEN 0
    ELSE IF ~Atoi(v).err THEN Atoi(v).val * 1000
    ELSE IF UntilDate(v) > 0 THEN UntilDate(v)
    ELSE 0

\* retryDelay; resp is the outcome of the request (status 0 for an error, the
\* resp == nil of the code), rnd is rand.Float64()
retryDelay(r, attempt, resp, rnd) ==
    IF resp.status = 429 /\ parseRetryAfter(resp.retryAfter) > 0
    THEN parseRetryAfter(resp.retryAfter)
    ELSE LET exp == r.base * 2 ^ attempt
             d == IF exp > r.maxDelay THEN r.maxDelay ELSE exp
             pct == 100 + ((rnd * 2 - 100) * r.jitter) \div 100
             jit == IF pct < 0 THEN 0 ELSE pct
         IN (d * jit) \div 100

\* doWithRetry, up to the loop: every field of the configuration that is not
\* positive is replaced by its default
DelayStart(c) ==
    /\ rt.pc = "idle"
    /\ rt' = [NoRetry EXCEPT !.pc = "loop", !.cfg = c.maxRetries,
                             !.max = IF c.maxRetries <= 0 THEN DefaultMaxRetries
                                     ELSE c.maxRetries,
                             !.base = IF c.base <= 0 THEN DefaultBaseDelay ELSE c.base,
                             !.maxDelay = IF c.maxDelay <= 0 THEN DefaultMaxDelay
                                          ELSE c.maxDelay,
                             !.jitter = IF c.jitter <= 0 THEN DefaultJitter ELSE c.jitter]
    /\ last' = NoLast
    /\ UNCHANGED <<coreVars, busVars>>

\* one iteration of the loop up to its return or its sleep, with the delay of
\* the sleep
DelayAttempt(o, rnd) ==
    /\ rt.pc = "loop"
    /\ IF cancelled
       THEN rt' = [rt EXCEPT !.pc = "done", !.result = CtxErr]
       ELSE LET retry == IF o.status # 0 THEN shouldRetryStatus(o.status)
                         ELSE shouldRetryError(o)
            IN rt' = IF ~retry \/ rt.attempt = rt.max
                     THEN [rt EXCEPT !.pc = "done", !.outs = Append(@, o), !.result = o]
                     ELSE [rt EXCEPT !.pc = "sleep", !.outs = Append(@, o),
                                     !.delay = retryDelay(rt, rt.attempt, o, rnd)]
    /\ last' = NoLast
    /\ UNCHANGED <<coreVars, busVars>>

DelayConfigs ==
    [maxRetries : {MaxDelayRetries}, base : {0, 4000}, maxDelay : {0, 5000},
     jitter : {0, 50, 150}]

RetryAfterValues == {<<>>, <<"2">>, <<"0">>, <<"-", "1">>, <<"x">>, <<"D", "+">>, <<"D", "-">>}

DelayOutcomes ==
    {HttpStatus(200), HttpStatus(500),
     RequestError(<<"i/o", "timeout">>, TRUE)}
    \cup {WithRetryAfter(HttpStatus(429), v) : v \in RetryAfterValues}
    \cup {WithRetryAfter(HttpStatus(503), <<"2">>)}

\* rand.Float64(), in percent
Rands == {0, 50, 99}

InitDelay == InitWith(MemConfig)

NextDelay ==
    \/ (Startup(TRUE) /\ UNCHANGED auxVars)
    \/ (Cancel /\ UNCHANGED auxVars)
    \/ (rt.pc = "idle" /\ UNCHANGED notRt /\ \E c \in DelayConfigs : DelayStart(c))
    \/ (rt.pc = "loop" /\ UNCHANGED notRt /\
           \E o \in DelayOutcomes, rnd \in Rands : DelayAttempt(o, rnd))
    \/ (RetryWake /\ UNCHANGED notRt)
    \/ (RetryCancelled /\ UNCHANGED notRt)

SpecDelay == InitDelay /\ [][NextDelay]_vars

\* the response the wrapper sleeps after
SleptAfter == rt.outs[Len(rt.outs)]

\* C36: while the wrapper sleeps between two attempts, the delay is the
\* Retry-After of the response when that is a 429 with a positive one, and
\* otherwise a delay of at most MaxDelay (the configured one, or the default
\* 30 s for a configuration without one); and a call that ends after a
\* response it would retry, with attempts left, was cancelled and ends with
\* the error of the context.
C36_DelayWithinMaxDelay ==
    /\ rt.pc = "sleep" =>
          IF SleptAfter.status = 429 /\ parseRetryAfter(SleptAfter.retryAfter) > 0
          THEN rt.delay = parseRetryAfter(SleptAfter.retryAfter)
          ELSE rt.delay <= rt.maxDelay
    /\ (/\ rt.pc = "done" /\ rt.outs # <<>> /\ Len(rt.outs) <= rt.max
        /\ IF SleptAfter.status # 0 THEN shouldRetryStatus(SleptAfter.status)
           ELSE shouldRetryError(SleptAfter))
          => cancelled /\ rt.result = CtxErr

----------------------------------------------------------------------------
(* The relay pattern of send_user_message, checked under SpecTurn *)

\* the step takes a relay event from the bus and starts its handling
RelayHandled == pc = "idle" /\ cur'.src = "event" /\ cur'.ev.kind = "relay"

\* C37: a send_user_message call that delivers to a manager v, with a bus,
\* injects the message into the context of v as an assistant message and
\* publishes a relay event for v with the same content; every other tool call
\* (a failed send, a recipient that is no manager, the sender's own id, another
\* tool) publishes nothing. The handling of a relay event appends the user
\* message "[sender]: content" to the context of its target, which already
\* holds the injected assistant message, and starts a turn of the target.
C37_RelayPattern ==
    [][/\ ExecStep =>
             IF ExecCall.name = "send_user_message" /\ ExecOut = "relay"
             THEN LET v == ExecCall.arg
                  IN /\ v # CurUser
                     /\ contexts'[v] = Append(contexts[v], assistantMessage(DmText))
                     /\ last'.op = "publish"
                     /\ last'.ev = RelayEvent(v, DmText, SenderName, last'.ev.event_id)
                     /\ ch' = Append(ch, last'.ev)
             ELSE ch' = ch /\ last'.op # "publish"
       /\ RelayHandled =>
             LET ev == cur'.ev
                 before == contexts[ev.target]
                 after == contexts'[ev.target]
             IN /\ ev = Head(ch)
                /\ \E i \in 1..Len(before) : before[i] = assistantMessage(ev.content)
                /\ Len(after) = Len(before) + 1
                /\ SubSeq(after, 1, Len(before)) = before
                /\ LastOf(after).role = "user"
                /\ LastOf(after).content =
                       <<TextBlock(<<"[">> \o ev.source \o <<"]", ":", " ">> \o ev.content)>>
                /\ pc' = "llm"
                /\ CurUser' = ev.target]_vars

\* the turn of a relay event runs: the context of its target holds the
\* injected assistant message and, after it, the user message of the event
C37_Witness ==
    /\ pc = "llm"
    /\ cur.src = "event"
    /\ cur.ev.kind = "relay"
    /\ \E i, j \in 1..Len(contexts[cur.ev.target]) :
          /\ i < j
          /\ contexts[cur.ev.target][i] = assistantMessage(DmText)
          /\ contexts[cur.ev.target][j].role = "user"
          /\ contexts[cur.ev.target][j].content =
                 <<TextBlock(RelayText(SenderName, DmText))>>

----------------------------------------------------------------------------
(* Cancellation in the throttle sleep, with the persistent bus: a chain of *)
(* heartbeats for user 1, then events with a row in agent_events           *)

\* the events with a row: each id is published once
PersistedEvents ==
    {[kind |-> "reminder", target |-> 1, chat |-> 1, content |-> DueText,
      source |-> <<"reminder">>, event_id |-> e] : e \in EventIds}

InitAbandon == InitWith(BusConfig)

NextAbandon ==
    \/ (UNCHANGED auxVars /\ \E dbOk \in BOOLEAN : Startup(dbOk))
    \/ (Cancel /\ UNCHANGED auxVars)
    \/ (pc = "stopped" /\ Restart /\ UNCHANGED auxVars)
    \/ (ch = <<>> /\ ChainRoom(1) /\ Publish(Heartbeat(1), TRUE) /\ UNCHANGED auxVars)
    \/ (ch = <<>> /\ ChainRoom(1) /\ UNCHANGED auxVars /\
           \E ev \in PersistedEvents :
               ~hist[ev.event_id].published /\ Publish(ev, TRUE))
    \/ (UnifiedHandleEvent /\ UNCHANGED auxVars)
    \/ (ThrottleWake /\ UNCHANGED auxVars)
    \/ (ThrottleCancel /\ UNCHANGED auxVars)
    \/ (pc = "llm" /\ LLMCall(Resp("err", EmptyStr, <<>>, NoUsage)) /\ UNCHANGED auxVars)
    \/ (UNCHANGED auxVars /\ \E dbOk \in BOOLEAN : MarkProcessed(dbOk))
    \/ (UnifiedReturn /\ UNCHANGED auxVars)

SpecAbandon == InitAbandon /\ [][NextAbandon]_vars

\* the event has a row in agent_events with processed_at IS NULL
RowPending(st, eid) == \E i \in Unprocessed(st) : st[i].event_id = eid

\* C38: when the context is cancelled while handleEvent is in its throttle
\* sleep, the handler returns with the event abandoned: the contexts are as
\* they were, the model has not been called, nothing has been sent, the table
\* is as it was and MarkProcessed has not run, so that the row of a persisted
\* event is still selected by the replay query.
C38_AbandonedOnCancel ==
    [][(pc = "sleep" /\ cancelled /\ pc' \notin {"sleep", "boot"}) =>
          /\ pc' = "idle"
          /\ cur' = NoCur
          /\ contexts' = contexts
          /\ tr'.llmCalls = 0 /\ tr'.sends = <<>> /\ tr'.log = <<>> /\ tr'.slept = 0
          /\ store' = store
          /\ last'.op # "mark"
          /\ HasRow(store, cur.ev.event_id) => RowPending(store', cur.ev.event_id)]_vars

\* the 11th consecutive event of user 1, a persisted one, has been abandoned on
\* cancellation: the context holds the ten events before it and its row is
\* unprocessed
C38_Witness ==
    /\ pc = "idle"
    /\ cancelled
    /\ tr.src = "event" /\ tr.done /\ tr.llmCalls = 0 /\ tr.slept = 0
    /\ routed[1] = ThrottleLimit + 1
    /\ Len(contexts[1]) = ThrottleLimit
    /\ \E e \in EventIds : hist[e].delivered /\ RowPending(store, e)

----------------------------------------------------------------------------
(* Publish and Close of the bus: three producers and a closer *)

Producers == {"reminder", "heartbeat", "tool"}

\* the event each producer publishes
ProducerEvent(p) ==
    IF p = "heartbeat" THEN Heartbeat(1)
    ELSE IF p = "tool" THEN RelayEvent(1, DmText, SenderName, "e1")
    ELSE [kind |-> "reminder", target |-> 1, chat |-> 1, content |-> DueText,
          source |-> <<"reminder">>, event_id |-> "e2"]

\* a producer calls Publish: PersistentBus.Publish runs its INSERT and logs a
\* failure; the send on the channel is the next step of the call
ClosePublishCall(p, dbOk) ==
    /\ opts.bus # "none"
    /\ pc \notin {"boot", "stopped"}
    /\ bc.prod[p].pc = "idle"
    /\ store' = IF opts.bus = "persistent"
                THEN PersistentPublish(store, ch, ProducerEvent(p), now, dbOk).store
                ELSE store
    /\ bc' = [bc EXCEPT !.prod[p] = [pc |-> "send", ev |-> ProducerEvent(p)]]
    /\ last' = NoLast
    /\ UNCHANGED <<coreVars, ch>>

\* InMemoryBus.Publish: select { case b.ch <- event: default: }. A send on a
\* closed channel panics, in a select with a default case too.
ClosePublishSend(p) ==
    /\ bc.prod[p].pc = "send"
    /\ IF bc.closed
       THEN /\ bc' = [bc EXCEPT !.prod[p].pc = "panicked"]
            /\ ch' = ch
       ELSE /\ bc' = [bc EXCEPT !.prod[p] = [pc |-> "idle", ev |-> NoEvent]]
            /\ ch' = MemPublish(ch, bc.prod[p].ev)
    /\ last' = NoLast
    /\ UNCHANGED <<coreVars, store>>

\* InMemoryBus.Close, and PersistentBus.Close that delegates to it: close(b.ch)
BusClose ==
    /\ opts.bus # "none"
    /\ pc \notin {"boot", "stopped"}
    /\ ~bc.closed
    /\ bc' = [bc EXCEPT !.closed = TRUE]
    /\ last' = NoLast
    /\ UNCHANGED <<coreVars, busVars>>

InitClose == \E o \in {MemConfig, BusConfig} : InitWith(o)

NextClose ==
    \/ (Startup(TRUE) /\ UNCHANGED auxVars)
    \/ (QueueRoom /\ UNCHANGED notBc /\
           \E p \in Producers, dbOk \in BOOLEAN : ClosePublishCall(p, dbOk))
    \/ (UNCHANGED notBc /\ \E p \in Producers : ClosePublishSend(p))
    \/ (BusClose /\ UNCHANGED notBc)

SpecClose == InitClose /\ [][NextClose]_vars

\* C39: no call of Publish ends in a panic, whatever Close does meanwhile.
C39_PublishNeverPanics == \A p \in Producers : bc.prod[p].pc # "panicked"

----------------------------------------------------------------------------
(* The update channel of the unified loop up to its capacity: a poller     *)
(* that is ahead of the dispatcher, and a producer of bus events           *)

MaxUpdates == 66

\* Messenger.Poll(offset): the next update, of user 1
NextUpdate(off) ==
    <<[id |-> Max(off, 1), chat |-> ChatOf(1), user |-> 1, text |-> TextHello]>>

IntakePoll == Max(offset, 1) <= MaxUpdates /\ PollerPoll(NextUpdate(offset)) /\ UNCHANGED auxVars
IntakeForward == PollerForward /\ UNCHANGED auxVars
IntakeUpdate == HandleLoggedUnified(HookOk(EmptyStr), HookOk(DeniedText)) /\ UNCHANGED notOrd
\* the producer publishes its event at any time, once
IntakePublish ==
    ch = <<>> /\ contexts[2] = <<>> /\ Publish(Heartbeat(2), TRUE) /\ UNCHANGED auxVars
IntakeEvent == UnifiedHandleEvent /\ UNCHANGED auxVars
IntakeChat == pc = "llm" /\ LLMCall(Resp("err", EmptyStr, <<>>, NoUsage)) /\ UNCHANGED auxVars

InitIntake == InitWith(ThrottleConfig)

NextIntake ==
    \/ (Startup(TRUE) /\ UNCHANGED auxVars)
    \/ (Cancel /\ UNCHANGED auxVars)
    \/ IntakePoll
    \/ IntakeForward
    \/ (PollerAbort /\ UNCHANGED auxVars)
    \/ IntakeUpdate
    \/ IntakePublish
    \/ IntakeEvent
    \/ IntakeChat
    \/ (UnifiedReturn /\ UNCHANGED auxVars)

SpecIntake == InitIntake /\ [][NextIntake]_vars

\* The goroutines are scheduled: the poller forwards when the channel has
\* room, the turn of an event returns, and the select of the dispatcher, which
\* takes one of its ready cases at random, does not pass over the update
\* channel forever.
SpecIntakeFair ==
    /\ SpecIntake
    /\ WF_vars(IntakeForward)
    /\ WF_vars(IntakeChat)
    /\ SF_vars(IntakeUpdate)

\* the ids of the updates the dispatcher has taken, of those in the channel
\* and of those the poller holds, in this order
IntakeIds ==
    ord.recv \o [i \in DOMAIN updCh |-> updCh[i].id] \o [i \in DOMAIN batch |-> batch[i].id]

\* every update Poll has returned is in exactly one place, in the order of Poll
NoneDropped == IntakeIds = [i \in 1..Len(IntakeIds) |-> i]

====
